---- MODULE Spec2Model ----
(***************************************************************************)
(* The IAM dataset catalog (text_recognizer/data/iam.py), its region       *)
(* geometry, and the synthetic paragraph composer                          *)
(* (text_recognizer/data/iam_synthetic_paragraphs.py).                     *)
(*                                                                         *)
(* Conventions.  A Python str is a sequence of one-character strings.  A   *)
(* form ID or line ID is the sequence of its hyphen-delimited components   *)
(* ("a01-000-00" is <<"a01", "000", "00">>), so that split("-") and         *)
(* "-".join are the identity on components and [:2] is a prefix.  A Python *)
(* dict is a function; Optional[T] is a sequence of length at most one.    *)
(* Python sequences are 0-based, the sequences here 1-based:               *)
(* input_dims[1] of the source is input_dims[2] here.                      *)
(***************************************************************************)
EXTENDS Integers, Sequences, FiniteSets, TLC

VARIABLES
    \* ---- the extracted dataset on disk, read by IAM
    xml_files,              \* form ID -> the line elements of <id>.xml, in document order
    split_files,            \* task/testset.txt, validationset1.txt, validationset2.txt
    \* ---- IAM: the cachedproperty values stored on the instance
    cached,                 \* names of the cachedproperties already computed
    all_ids,
    test_ids,
    validation_ids,
    train_ids,
    line_strings_by_id,
    line_regions_by_id,
    paragraph_string_by_id,
    paragraph_region_by_id,
    \* ---- the outcome of the last call: "none" or the exception it raised
    raised,
    \* ---- _get_region_from_xml_element called on its own
    xml_elem,               \* the unit elements found under the element
    returned_region,        \* the Optional region returned
    returned,               \* whether the call has returned
    \* ---- IAMSyntheticParagraphsDataset
    line_crops,
    line_labels,
    input_dims,
    output_dims,
    seed_set,
    seed,                   \* Optional: what random.seed was called with
    index,                  \* Optional: the argument of the last __getitem__ call
    pc,                     \* position in __getitem__: idle, loop, returned, raised
    num_lines,
    indices,
    sampled_indices,        \* the list random.sample returned to the current call
    datum,
    labels,
    attempts,               \* compositions made by the current __getitem__ call
    \* ---- the raw dataset and one data module's crop store
    archive,                \* what the dataset archive behind the URL holds
    raw_zip,                \* whether the downloaded archive is in DL_DATA_DIRNAME
    module,                 \* the class of the data module: IAMLines, IAMParagraphs, ...
    processed,              \* its PROCESSED_DATA_DIRNAME
    proc,                   \* the process running prepare_data: its position and
                            \* the effects it has still to make
    part_way,               \* a run was stopped between its first and its last write
    data,                   \* split -> the crops and labels setup has loaded
    validated,              \* Optional: the dimensions the last setup accepted
    \* ---- lit_models/util.py: one call of replace_after
    arg_x,                  \* the tensor x: its dtype and its rows
    arg_element,
    arg_replace,
    first_appearances,      \* the local of replace_after, once computed
    outs,                   \* Optional: the rows of the tensor returned
    \* ---- callbacks/imtotext.py: a trainer with both logging callbacks
    trainer_logger,         \* Optional: the attributes of trainer.logger
    on_train,               \* ImageToTextTableLogger.on_train
    has_wandb,              \* whether import wandb succeeded
    rank,                   \* the rank of the process
    invoked,                \* the calls made on trainer.logger
    warnings,               \* the warnings logged
    last_check,             \* Optional: the last call of check_and_warn
    \* ---- training/cleanup_artifacts.py: one run of the script
    args,                   \* the parsed command line
    runs,                   \* the runs main has still to clean
    printed,                \* what was printed
    deleted,                \* the calls of artifact.delete made
    main_pc,                \* the position in main: start, cleaning, returned, raised
    \* ---- data/base_data_module.py: the download directory of the raw dataset
    dl_file,                \* Optional: what the file at the archive's filename holds
    extracted,              \* Optional: the archive whose contents were extracted
    returned_filename,      \* whether the last _download_raw_dataset returned the filename
    fetched,                \* what the URL gave at each download so far
    \* ---- the directory of line crops, file by file
    line_dir,               \* split -> the entries made, in order, and the files by name
    line_saved,             \* split -> the crops and labels handed to the save
    line_listing,           \* the order the last glob met the entries in
    line_loaded,            \* Optional: what the last load returned
    \* ---- IAM: the cachedproperty values that are dicts
    ids_by_split,           \* split -> list of form IDs
    split_by_id             \* form ID -> split

iam_vars == <<xml_files, split_files, cached, all_ids, test_ids, validation_ids,
              train_ids, line_strings_by_id, line_regions_by_id,
              paragraph_string_by_id, paragraph_region_by_id>>
fn_vars == <<xml_elem, returned_region, returned>>
synth_vars == <<line_crops, line_labels, input_dims, output_dims, seed_set, seed,
                index, pc, num_lines, indices, sampled_indices, datum, labels, attempts>>
cache_vars == <<archive, raw_zip, module, processed, proc, part_way, data, validated>>
\* the state of the specifications that follow the catalog and the composer
tensor_vars == <<arg_x, arg_element, arg_replace, first_appearances, outs>>
callback_vars == <<trainer_logger, on_train, has_wandb, rank, invoked, warnings,
                   last_check>>
cleanup_vars == <<args, runs, printed, deleted, main_pc>>
download_vars == <<dl_file, extracted, returned_filename, fetched>>
lines_vars == <<line_dir, line_saved, line_listing, line_loaded>>
dict_vars == <<ids_by_split, split_by_id>>
\* the state added for files read and written and for the dicts of IAM
io_vars == <<download_vars, lines_vars, dict_vars>>
util_vars == <<tensor_vars, callback_vars, cleanup_vars, io_vars>>
ext_vars == <<cache_vars, util_vars>>
vars == <<iam_vars, raised, fn_vars, synth_vars, ext_vars>>

----------------------------------------------------------------------------
\* Bounds of the model.

\* lines per split-definition file
MaxTestLines == 2
MaxValLines == 1
\* line elements per annotation file
MaxLines == 2
\* unit elements under one element, for the region function on its own
MaxAtoms == 2
\* lines in the synthetic composer's pool
MaxPool == 3

----------------------------------------------------------------------------
\* Python built-ins.

SeqsUpTo(S, n) == UNION {[1..k -> S] : k \in 0..n}

Range(s) == {s[i] : i \in DOMAIN s}

min(S) == CHOOSE m \in S : \A n \in S : m <= n

max(S) == CHOOSE m \in S : \A n \in S : m >= n

min2(a, b) == IF a <= b THEN a ELSE b

max2(a, b) == IF a >= b THEN a ELSE b

\* list(S) for a set S: every element once, in an order the language does not fix
list(S) == {s \in [1..Cardinality(S) -> S] : Range(s) = S}

\* s[:n]
Take(s, n) == SubSeq(s, 1, min2(n, Len(s)))

\* s[:-1]
DropLast(s) == SubSeq(s, 1, Len(s) - 1)

\* sep.join(strs), for a one-character sep
RECURSIVE join(_, _)
join(sep, strs) ==
    IF Len(strs) = 0 THEN <<>>
    ELSE IF Len(strs) = 1 THEN strs[1]
    ELSE strs[1] \o <<sep>> \o join(sep, Tail(strs))

\* s.replace(old, new) for a non-empty old: leftmost, non-overlapping occurrences
RECURSIVE replace(_, _, _)
replace(s, old, new) ==
    IF Len(s) < Len(old) THEN s
    ELSE IF SubSeq(s, 1, Len(old)) = old
         THEN new \o replace(SubSeq(s, Len(old) + 1, Len(s)), old, new)
         ELSE <<s[1]>> \o replace(Tail(s), old, new)

None == <<>>

Some(v) == <<v>>

----------------------------------------------------------------------------
\* metadata/iam.py, metadata/iam_paragraphs.py

DOWNSAMPLE_FACTOR == 2

LINE_REGION_PADDING == 8

NEW_LINE_TOKEN == "\n"

----------------------------------------------------------------------------
\* The inputs of the catalog: what the extracted dataset may hold.

\* form IDs, in the order sorted() gives their strings
SortedStems == << <<"a01", "000">>, <<"a01", "001">> >>

Stems == Range(SortedStems)

\* lines of a split-definition file: line IDs, and the empty line
LineIds == { <<"a01", "000", "00">>, <<"a01", "000", "01">>,
             <<"a01", "001", "00">>, <<"">> }

SplitFiles ==
    [testset : SeqsUpTo(LineIds, MaxTestLines),
     validationset1 : SeqsUpTo(LineIds, MaxValLines),
     validationset2 : SeqsUpTo(LineIds, MaxValLines)]

----------------------------------------------------------------------------
\* data/iam.py: the splits

\* sorted(stems), for stems among Stems
sorted(stems) == SelectSeq(SortedStems, LAMBDA id : id \in stems)

\* the stems of IAM.xml_filenames
xml_filenames == DOMAIN xml_files

\* a slip: a list comprehension for the set comprehension
_get_ids_from_lwitlrt_split_file_keeping_duplicates(file) ==
    {[i \in DOMAIN SelectSeq(file, LAMBDA l : l # <<"">>) |->
        Take(SelectSeq(file, LAMBDA l : l # <<"">>)[i], 2)]}

\* a slip: the form ID cut to its first component only ([:1] for [:2])
_get_ids_from_lwitlrt_split_file_first_component(file) ==
    LET line_ids == Range(file)
    IN  list({Take(line_id, 1) : line_id \in {l \in line_ids : l # <<"">>}})

\* the lists the function may return: the set comprehension fixes no order
_get_ids_from_lwitlrt_split_file(file) ==
    LET line_ids == Range(file)
    IN  list({Take(line_id, 2) : line_id \in {l \in line_ids : l # <<"">>}})

\* the value of IAM.all_ids on this access
all_ids_value == IF "all_ids" \in cached THEN all_ids ELSE sorted(xml_filenames)

\* the values IAM.test_ids may have on this access
test_ids_values ==
    IF "test_ids" \in cached THEN {test_ids}
    ELSE _get_ids_from_lwitlrt_split_file(split_files.testset)

\* the values IAM.validation_ids may have on this access
validation_ids_values ==
    IF "validation_ids" \in cached THEN {validation_ids}
    ELSE {val_ids \o more :
            val_ids \in _get_ids_from_lwitlrt_split_file(split_files.validationset1),
            more \in _get_ids_from_lwitlrt_split_file(split_files.validationset2)}

\* a slip: the parentheses left out, all - test | val
train_ids_values_no_parentheses(all, test, val) ==
    list((Range(all) \ Range(test)) \cup Range(val))

\* a slip: the operands of the difference exchanged
train_ids_values_exchanged(all, test, val) ==
    list((Range(test) \cup Range(val)) \ Range(all))

\* the lists IAM.train_ids may compute from the three other lists
train_ids_values(all, test, val) ==
    list(Range(all) \ (Range(test) \cup Range(val)))

Get_all_ids ==
    /\ UNCHANGED ext_vars
    /\ "all_ids" \notin cached
    /\ all_ids' = all_ids_value
    /\ cached' = cached \cup {"all_ids"}
    /\ raised' = "none"
    /\ UNCHANGED <<xml_files, split_files, test_ids, validation_ids, train_ids,
                   line_strings_by_id, line_regions_by_id, paragraph_string_by_id,
                   paragraph_region_by_id, fn_vars, synth_vars>>

Get_test_ids ==
    /\ UNCHANGED ext_vars
    /\ "test_ids" \notin cached
    /\ test_ids' \in test_ids_values
    /\ cached' = cached \cup {"test_ids"}
    /\ raised' = "none"
    /\ UNCHANGED <<xml_files, split_files, all_ids, validation_ids, train_ids,
                   line_strings_by_id, line_regions_by_id, paragraph_string_by_id,
                   paragraph_region_by_id, fn_vars, synth_vars>>

Get_validation_ids ==
    /\ UNCHANGED ext_vars
    /\ "validation_ids" \notin cached
    /\ validation_ids' \in validation_ids_values
    /\ cached' = cached \cup {"validation_ids"}
    /\ raised' = "none"
    /\ UNCHANGED <<xml_files, split_files, all_ids, test_ids, train_ids,
                   line_strings_by_id, line_regions_by_id, paragraph_string_by_id,
                   paragraph_region_by_id, fn_vars, synth_vars>>

\* train_ids evaluates all_ids, test_ids and validation_ids, which caches them
Get_train_ids ==
    /\ UNCHANGED ext_vars
    /\ "train_ids" \notin cached
    /\ all_ids' = all_ids_value
    /\ test_ids' \in test_ids_values
    /\ validation_ids' \in validation_ids_values
    /\ train_ids' \in train_ids_values(all_ids', test_ids', validation_ids')
    /\ cached' = cached \cup {"all_ids", "test_ids", "validation_ids", "train_ids"}
    /\ raised' = "none"
    /\ UNCHANGED <<xml_files, split_files,
                   line_strings_by_id, line_regions_by_id, paragraph_string_by_id,
                   paragraph_region_by_id, fn_vars, synth_vars>>

\* dict.update: the entries of more replace those of d under the same key
dict_update(d, more) ==
    [k \in DOMAIN d \cup DOMAIN more |-> IF k \in DOMAIN more THEN more[k] ELSE d[k]]

\* {id_: split for id_ in lst}
dict_of(lst, split) == [id \in Range(lst) |-> split]

\* a slip: the dict begun with the test entries and updated with train last
split_by_id_value_train_last(train, val, test) ==
    dict_update(dict_update(dict_of(test, "test"), dict_of(val, "val")),
                dict_of(train, "train"))

\* the dict IAM.split_by_id computes from the three lists
split_by_id_value(train, val, test) ==
    dict_update(dict_update(dict_of(train, "train"), dict_of(val, "val")),
                dict_of(test, "test"))

\* the values IAM.train_ids may have on this access, the other lists read
train_ids_read(all, test, val) ==
    IF "train_ids" \in cached THEN {train_ids} ELSE train_ids_values(all, test, val)

\* ids_by_split evaluates train_ids, validation_ids and test_ids
Get_ids_by_split ==
    /\ "ids_by_split" \notin cached
    /\ all_ids' = all_ids_value
    /\ test_ids' \in test_ids_values
    /\ validation_ids' \in validation_ids_values
    /\ train_ids' \in train_ids_read(all_ids', test_ids', validation_ids')
    /\ ids_by_split' = [train |-> train_ids', val |-> validation_ids', test |-> test_ids']
    /\ cached' = cached \cup {"all_ids", "test_ids", "validation_ids", "train_ids",
                              "ids_by_split"}
    /\ raised' = "none"
    /\ UNCHANGED <<xml_files, split_files,
                   line_strings_by_id, line_regions_by_id, paragraph_string_by_id,
                   paragraph_region_by_id, fn_vars, synth_vars, cache_vars, tensor_vars,
                   callback_vars, cleanup_vars, download_vars, lines_vars, split_by_id>>

\* split_by_id evaluates train_ids, validation_ids and test_ids
Get_split_by_id ==
    /\ "split_by_id" \notin cached
    /\ all_ids' = all_ids_value
    /\ test_ids' \in test_ids_values
    /\ validation_ids' \in validation_ids_values
    /\ train_ids' \in train_ids_read(all_ids', test_ids', validation_ids')
    /\ split_by_id' = split_by_id_value(train_ids', validation_ids', test_ids')
    /\ cached' = cached \cup {"all_ids", "test_ids", "validation_ids", "train_ids",
                              "split_by_id"}
    /\ raised' = "none"
    /\ UNCHANGED <<xml_files, split_files,
                   line_strings_by_id, line_regions_by_id, paragraph_string_by_id,
                   paragraph_region_by_id, fn_vars, synth_vars, cache_vars, tensor_vars,
                   callback_vars, cleanup_vars, download_vars, lines_vars, ids_by_split>>

----------------------------------------------------------------------------
\* The inputs of the catalog: the line elements an annotation file may hold.

Atom(x, y, width, height) == [x |-> x, y |-> y, width |-> width, height |-> height]

\* the line of the worked example: unpadded x1 = 5, y1 = 10, x2 = 18, y2 = 15
el_example ==
    [text |-> <<"H", "i">>,
     atoms |-> <<Atom(10, 20, 5, 8), Atom(30, 22, 6, 9)>>]

\* a line whose strokes reach into the example line: y1 = 13, y2 = 19
el_overlapping ==
    [text |-> <<"&", "q", "u", "o", "t", ";", "a", "&", "q", "u", "o", "t", ";">>,
     atoms |-> <<Atom(8, 26, 7, 12)>>]

\* a line below both: y1 = 32, y2 = 36, which is 17 below the example line
\* and 13 below the overlapping one
el_below ==
    [text |-> <<"&", "q", "u", "o", "t">>,
     atoms |-> <<Atom(11, 64, 40, 9)>>]

\* a line with no word/cmp element
el_no_atoms ==
    [text |-> <<>>,
     atoms |-> <<>>]

\* a line whose only component carries a negative height
el_negative_height ==
    [text |-> <<"c">>,
     atoms |-> <<Atom(10, 60, 4, -50)>>]

LineElements ==
    {el_example, el_overlapping, el_below, el_no_atoms, el_negative_height}

\* the line elements of one annotation file, in document order, which need not
\* be top to bottom; no line occurs twice
AnnotationFiles ==
    {file \in SeqsUpTo(LineElements, MaxLines) :
        \A i, j \in DOMAIN file : i # j => file[i] # file[j]}

----------------------------------------------------------------------------
\* data/iam.py: line strings and regions

\* s.replace(old, new, 1): the leftmost occurrence only
RECURSIVE replace_once(_, _, _)
replace_once(s, old, new) ==
    IF Len(s) < Len(old) THEN s
    ELSE IF SubSeq(s, 1, Len(old)) = old
         THEN new \o SubSeq(s, Len(old) + 1, Len(s))
         ELSE <<s[1]>> \o replace_once(Tail(s), old, new)

\* a slip: only the first &quot; of a line replaced
_get_text_from_xml_element_first_only(xml_element) ==
    replace_once(xml_element.text, <<"&", "q", "u", "o", "t", ";">>, <<"\"">>)

_get_text_from_xml_element(xml_element) ==
    replace(xml_element.text, <<"&", "q", "u", "o", "t", ";">>, <<"\"">>)

_get_line_strings_from_xml_file(xml_line_elements) ==
    [i \in DOMAIN xml_line_elements |->
        _get_text_from_xml_element(xml_line_elements[i])]

\* a slip: x2 and y2 taken from the corner x, y without the width and height
_get_region_from_xml_element_no_extent(unit_elements) ==
    IF unit_elements = <<>> THEN None
    ELSE Some([x1 |-> min({el.x : el \in Range(unit_elements)}) \div DOWNSAMPLE_FACTOR,
               y1 |-> min({el.y : el \in Range(unit_elements)}) \div DOWNSAMPLE_FACTOR,
               x2 |-> max({el.x : el \in Range(unit_elements)}) \div DOWNSAMPLE_FACTOR,
               y2 |-> max({el.y : el \in Range(unit_elements)}) \div DOWNSAMPLE_FACTOR])

\* unit_elements is xml_elem.findall(xml_path)
_get_region_from_xml_element(unit_elements) ==
    IF unit_elements = <<>> THEN None
    ELSE Some([x1 |-> min({el.x : el \in Range(unit_elements)}) \div DOWNSAMPLE_FACTOR,
               y1 |-> min({el.y : el \in Range(unit_elements)}) \div DOWNSAMPLE_FACTOR,
               x2 |-> max({el.x + el.width : el \in Range(unit_elements)})
                        \div DOWNSAMPLE_FACTOR,
               y2 |-> max({el.y + el.height : el \in Range(unit_elements)})
                        \div DOWNSAMPLE_FACTOR])

\* the gaps between each region and the next, for regions that are not None
line_gaps_y(line_regions) ==
    [i \in 1..(Len(line_regions) - 1) |->
        max2(line_regions[i + 1].y1 - line_regions[i].y2, 0)]

\* a slip: the outer gap of the last line the padding, not twice the padding
post_line_gaps_y_single_padding(line_regions) ==
    line_gaps_y(line_regions) \o <<LINE_REGION_PADDING>>

post_line_gaps_y(line_regions) ==
    line_gaps_y(line_regions) \o <<2 * LINE_REGION_PADDING>>

pre_line_gaps_y(line_regions) ==
    <<2 * LINE_REGION_PADDING>> \o line_gaps_y(line_regions)

\* a slip: half the gap rounded up
padded_region_half_rounded_up(region, pre_gap, post_gap) ==
    [x1 |-> region.x1 - LINE_REGION_PADDING,
     x2 |-> region.x2 + LINE_REGION_PADDING,
     y1 |-> region.y1 - min2(LINE_REGION_PADDING, (pre_gap + 1) \div 2),
     y2 |-> region.y2 + min2(LINE_REGION_PADDING, (post_gap + 1) \div 2)]

\* a slip: the full padding on every side, whatever the gaps
padded_region_full(region, pre_gap, post_gap) ==
    [x1 |-> region.x1 - LINE_REGION_PADDING,
     x2 |-> region.x2 + LINE_REGION_PADDING,
     y1 |-> region.y1 - LINE_REGION_PADDING,
     y2 |-> region.y2 + LINE_REGION_PADDING]

\* a slip: the vertical padding applied inwards
padded_region_inwards(region, pre_gap, post_gap) ==
    [x1 |-> region.x1 - LINE_REGION_PADDING,
     x2 |-> region.x2 + LINE_REGION_PADDING,
     y1 |-> region.y1 + min2(LINE_REGION_PADDING, pre_gap \div 2),
     y2 |-> region.y2 - min2(LINE_REGION_PADDING, post_gap \div 2)]

\* one entry of the returned list
padded_region(region, pre_gap, post_gap) ==
    [x1 |-> region.x1 - LINE_REGION_PADDING,
     x2 |-> region.x2 + LINE_REGION_PADDING,
     y1 |-> region.y1 - min2(LINE_REGION_PADDING, pre_gap \div 2),
     y2 |-> region.y2 + min2(LINE_REGION_PADDING, post_gap \div 2)]

\* the returned list, for regions that are not None
padded_line_regions(line_regions) ==
    [i \in DOMAIN line_regions |->
        padded_region(line_regions[i],
                      pre_line_gaps_y(line_regions)[i],
                      post_line_gaps_y(line_regions)[i])]

\* a slip: the lines without a region left out of the list
_get_line_regions_from_xml_file_skipping_none(xml_line_elements) ==
    LET with_region == SelectSeq(xml_line_elements, LAMBDA el : el.atoms # <<>>)
        line_regions ==
            [i \in DOMAIN with_region |->
                _get_region_from_xml_element(with_region[i].atoms)[1]]
    IN  IF line_regions = <<>>
        THEN [raised |-> "AssertionError", value |-> <<>>]
        ELSE [raised |-> "none", value |-> padded_line_regions(line_regions)]

\* the outcome of the call: the list returned, or the exception raised.  The
\* assertion fails when no region is not None; a None among the regions is
\* then subscripted, by the gaps for two lines or more.
_get_line_regions_from_xml_file(xml_line_elements) ==
    LET line_regions ==
            [i \in DOMAIN xml_line_elements |->
                _get_region_from_xml_element(xml_line_elements[i].atoms)]
    IN  IF ~ \E i \in DOMAIN line_regions : line_regions[i] # None
        THEN [raised |-> "AssertionError", value |-> <<>>]
        ELSE IF \E i \in DOMAIN line_regions : line_regions[i] = None
        THEN [raised |-> "TypeError", value |-> <<>>]
        ELSE [raised |-> "none",
              value |-> padded_line_regions(
                            [i \in DOMAIN line_regions |-> line_regions[i][1]])]

\* a slip: the forms without a line left out of the dict
line_strings_by_id_value_without_empty_forms ==
    IF "line_strings_by_id" \in cached THEN line_strings_by_id
    ELSE [id \in {f \in xml_filenames : xml_files[f] # <<>>} |->
            _get_line_strings_from_xml_file(xml_files[id])]

\* the value of IAM.line_strings_by_id on this access
line_strings_by_id_value ==
    IF "line_strings_by_id" \in cached THEN line_strings_by_id
    ELSE [id \in xml_filenames |-> _get_line_strings_from_xml_file(xml_files[id])]

\* the outcomes of IAM.line_regions_by_id on this access: the files are read
\* in the order of xml_filenames, and the first that fails ends the call
line_regions_by_id_outcomes ==
    IF "line_regions_by_id" \in cached
    THEN {[raised |-> "none", value |-> line_regions_by_id]}
    ELSE LET outcome == [id \in xml_filenames |->
                            _get_line_regions_from_xml_file(xml_files[id])]
             failing == {id \in xml_filenames : outcome[id].raised # "none"}
         IN  IF failing = {}
             THEN {[raised |-> "none",
                    value |-> [id \in xml_filenames |-> outcome[id].value]]}
             ELSE {[raised |-> outcome[id].raised, value |-> <<>>] : id \in failing}

\* a slip: y2 the smallest instead of the largest
paragraph_region_min_y2(line_regions) ==
    [x1 |-> min({line_regions[i].x1 : i \in DOMAIN line_regions}),
     y1 |-> min({line_regions[i].y1 : i \in DOMAIN line_regions}),
     x2 |-> max({line_regions[i].x2 : i \in DOMAIN line_regions}),
     y2 |-> min({line_regions[i].y2 : i \in DOMAIN line_regions})]

\* one value of the dict paragraph_region_by_id
paragraph_region(line_regions) ==
    [x1 |-> min({line_regions[i].x1 : i \in DOMAIN line_regions}),
     y1 |-> min({line_regions[i].y1 : i \in DOMAIN line_regions}),
     x2 |-> max({line_regions[i].x2 : i \in DOMAIN line_regions}),
     y2 |-> max({line_regions[i].y2 : i \in DOMAIN line_regions})]

Get_line_strings_by_id ==
    /\ UNCHANGED ext_vars
    /\ "line_strings_by_id" \notin cached
    /\ line_strings_by_id' = line_strings_by_id_value
    /\ cached' = cached \cup {"line_strings_by_id"}
    /\ raised' = "none"
    /\ UNCHANGED <<xml_files, split_files, all_ids, test_ids, validation_ids,
                   train_ids, line_regions_by_id, paragraph_string_by_id,
                   paragraph_region_by_id, fn_vars, synth_vars>>

Get_line_regions_by_id ==
    /\ UNCHANGED ext_vars
    /\ "line_regions_by_id" \notin cached
    /\ \E outcome \in line_regions_by_id_outcomes :
        /\ raised' = outcome.raised
        /\ IF outcome.raised = "none"
           THEN /\ line_regions_by_id' = outcome.value
                /\ cached' = cached \cup {"line_regions_by_id"}
           ELSE UNCHANGED <<line_regions_by_id, cached>>
    /\ UNCHANGED <<xml_files, split_files, all_ids, test_ids, validation_ids,
                   train_ids, line_strings_by_id, paragraph_string_by_id,
                   paragraph_region_by_id, fn_vars, synth_vars>>

\* paragraph_string_by_id evaluates line_strings_by_id, which caches it
Get_paragraph_string_by_id ==
    /\ UNCHANGED ext_vars
    /\ "paragraph_string_by_id" \notin cached
    /\ line_strings_by_id' = line_strings_by_id_value
    /\ paragraph_string_by_id' =
            [id \in DOMAIN line_strings_by_id' |->
                join(NEW_LINE_TOKEN, line_strings_by_id'[id])]
    /\ cached' = cached \cup {"line_strings_by_id", "paragraph_string_by_id"}
    /\ raised' = "none"
    /\ UNCHANGED <<xml_files, split_files, all_ids, test_ids, validation_ids,
                   train_ids, line_regions_by_id, paragraph_region_by_id,
                   fn_vars, synth_vars>>

\* paragraph_region_by_id evaluates line_regions_by_id, which caches it or raises
Get_paragraph_region_by_id ==
    /\ UNCHANGED ext_vars
    /\ "paragraph_region_by_id" \notin cached
    /\ \E outcome \in line_regions_by_id_outcomes :
        /\ raised' = outcome.raised
        /\ IF outcome.raised = "none"
           THEN /\ line_regions_by_id' = outcome.value
                /\ paragraph_region_by_id' =
                        [id \in DOMAIN outcome.value |->
                            paragraph_region(outcome.value[id])]
                /\ cached' = cached \cup {"line_regions_by_id",
                                          "paragraph_region_by_id"}
           ELSE UNCHANGED <<line_regions_by_id, paragraph_region_by_id, cached>>
    /\ UNCHANGED <<xml_files, split_files, all_ids, test_ids, validation_ids,
                   train_ids, line_strings_by_id, paragraph_string_by_id,
                   fn_vars, synth_vars>>

----------------------------------------------------------------------------
\* data/iam_synthetic_paragraphs.py: IAMSyntheticParagraphsDataset

min_num_lines == 1

max_num_lines == 15

\* the largest index a data loader asks for
MaxIndex == 1

\* a PIL image of a line, by its size
Crop(height, width) == [height |-> height, width |-> width]

\* the lines of a pool: a crop with its label
PoolLines ==
    <<[crop |-> Crop(1, 1), label |-> <<"a">>],
      [crop |-> Crop(2, 2), label |-> <<"b">>],
      [crop |-> Crop(1, 1), label |-> <<"b", "c", "d">>]>>

\* (channels, height, width) and (length, 1), scaled down with the crops
InputDims == {<<1, 1, 2>>, <<1, 2, 1>>, <<1, 3, 2>>}

OutputDims == {<<4, 1>>, <<5, 1>>}

\* self.ids = list(range(len(self.line_labels)))
ids == [i \in 1..Len(line_labels) |-> i - 1]

\* list[i] of a Python list
at(lst, i) == lst[i + 1]

\* random.sample(population, k): any k entries at distinct positions, in any order
sample(population, k) ==
    {[j \in 1..k |-> population[pos[j]]] :
        pos \in {f \in [1..k -> DOMAIN population] :
                    \A a, b \in 1..k : a # b => f[a] # f[b]}}

RECURSIVE sum(_)
sum(s) == IF s = <<>> THEN 0 ELSE s[1] + sum(Tail(s))

\* a slip: current_height left at 0, every crop pasted at the top
join_line_crops_to_form_paragraph_pasted_at_the_top(crops) ==
    IF crops = <<>>
    THEN [raised |-> "IndexError", value |-> None]
    ELSE [raised |-> "none",
          value |-> Some(
            [height |-> sum([j \in DOMAIN crops |-> crops[j].height]),
             width |-> max({crops[j].width : j \in DOMAIN crops}),
             pastes |-> [j \in DOMAIN crops |-> [crop |-> crops[j], box |-> <<0, 0>>]]])]

\* a slip: no crops make an image of no size
join_line_crops_to_form_paragraph_of_nothing(crops) ==
    [raised |-> "none",
     value |-> Some(
        [height |-> sum([j \in DOMAIN crops |-> crops[j].height]),
         width |-> max({crops[j].width : j \in DOMAIN crops} \cup {0}),
         pastes |-> [j \in DOMAIN crops |->
                        [crop |-> crops[j],
                         box |-> <<0, sum([h \in 1..(j - 1) |-> crops[h].height])>>]]])]

\* the outcome of the call: numpy refuses the column index on an empty array;
\* the image is its size and the boxes the crops are pasted at
join_line_crops_to_form_paragraph(crops) ==
    IF crops = <<>>
    THEN [raised |-> "IndexError", value |-> None]
    ELSE [raised |-> "none",
          value |-> Some(
            [height |-> sum([j \in DOMAIN crops |-> crops[j].height]),
             width |-> max({crops[j].width : j \in DOMAIN crops}),
             pastes |-> [j \in DOMAIN crops |->
                            [crop |-> crops[j],
                             box |-> <<0, sum([h \in 1..(j - 1) |-> crops[h].height])>>]]])]

\* a slip: the width left out of the test
fits_without_width(para, para_labels) ==
    /\ Len(para_labels) <= output_dims[1] - 2
    /\ para.height <= input_dims[2]

\* the test that ends the loop
fits(para, para_labels) ==
    /\ Len(para_labels) <= output_dims[1] - 2
    /\ para.height <= input_dims[2]
    /\ para.width <= input_dims[3]

\* a slip: two indices dropped at a time, indices[:-2]
shrunk_by_two(sampled) == SubSeq(sampled, 1, Len(sampled) - 2)

\* a slip: the first index dropped, indices[1:]
shrunk_from_the_front(sampled) == Tail(sampled)

\* indices[:-1]
shrunk(sampled) == DropLast(sampled)

\* a slip: the test of seed_set left out
_set_seed_every_call(self, new_seed) ==
    [seed_set |-> TRUE, seed |-> Some(new_seed)]

\* _set_seed: self.seed_set and the seed of the generator after the call
_set_seed(self, new_seed) ==
    IF ~ self.seed_set
    THEN [seed_set |-> TRUE, seed |-> Some(new_seed)]
    ELSE self

\* __getitem__(index) up to the loop: _set_seed(index), then randint and
\* sample, which raises ValueError when the pool has fewer than num_lines
\* lines.  What the generator draws is any value it can draw.
GetItem ==
    /\ UNCHANGED ext_vars
    /\ pc \in {"idle", "returned", "raised"}
    /\ \E idx \in 0..MaxIndex :
        LET self == _set_seed([seed_set |-> seed_set, seed |-> seed], idx)
        IN  /\ index' = Some(idx)
            /\ seed_set' = self.seed_set
            /\ seed' = self.seed
    /\ \/ \* randint draws more lines than the pool has
          /\ max2(min_num_lines, Len(ids) + 1) <= max_num_lines
          /\ raised' = "ValueError"
          /\ pc' = "raised"
          /\ num_lines' = 0
          /\ indices' = <<>>
          /\ sampled_indices' = <<>>
       \/ \E k \in min_num_lines..min2(max_num_lines, Len(ids)) :
          /\ raised' = "none"
          /\ pc' = "loop"
          /\ num_lines' = k
          /\ indices' \in sample(ids, k)
          /\ sampled_indices' = indices'
    /\ datum' = None
    /\ labels' = <<>>
    /\ attempts' = 0
    /\ UNCHANGED <<iam_vars, fn_vars, line_crops, line_labels, input_dims, output_dims>>

\* one pass of the while loop: compose, then return the paragraph or drop the
\* last index.  The value returned is the image before self.transform.
Compose ==
    /\ UNCHANGED ext_vars
    /\ pc = "loop"
    /\ attempts' = attempts + 1
    /\ LET outcome == join_line_crops_to_form_paragraph(
                        [j \in DOMAIN indices |-> at(line_crops, indices[j])])
           joined == join(NEW_LINE_TOKEN,
                        [j \in DOMAIN indices |-> at(line_labels, indices[j])])
       IN  IF outcome.raised # "none"
           THEN /\ raised' = outcome.raised
                /\ pc' = "raised"
                /\ num_lines' = 0
                /\ UNCHANGED <<indices, datum, labels>>
           ELSE IF fits(outcome.value[1], joined)
           THEN /\ pc' = "returned"
                /\ datum' = outcome.value
                /\ labels' = joined
                /\ UNCHANGED <<raised, num_lines, indices>>
           ELSE /\ indices' = shrunk(indices)
                /\ UNCHANGED <<raised, pc, num_lines, datum, labels>>
    /\ UNCHANGED <<iam_vars, fn_vars, line_crops, line_labels, input_dims, output_dims,
                   seed_set, seed, index, sampled_indices>>

----------------------------------------------------------------------------
\* The parts of the state a specification does not use stay as constructed.

IAMUnused ==
    /\ xml_files = <<>>
    /\ split_files = [testset |-> <<>>, validationset1 |-> <<>>, validationset2 |-> <<>>]
    /\ cached = {}
    /\ all_ids = <<>>
    /\ test_ids = <<>>
    /\ validation_ids = <<>>
    /\ train_ids = <<>>
    /\ line_strings_by_id = <<>>
    /\ line_regions_by_id = <<>>
    /\ paragraph_string_by_id = <<>>
    /\ paragraph_region_by_id = <<>>

FnUnused ==
    /\ xml_elem = <<>>
    /\ returned_region = None
    /\ returned = FALSE

SynthUnused ==
    /\ line_crops = <<>>
    /\ line_labels = <<>>
    /\ input_dims = <<0, 0, 0>>
    /\ output_dims = <<0, 0>>
    /\ seed_set = FALSE
    /\ seed = None
    /\ index = None
    /\ pc = "idle"
    /\ num_lines = 0
    /\ indices = <<>>
    /\ sampled_indices = <<>>
    /\ datum = None
    /\ labels = <<>>
    /\ attempts = 0

CacheUnused ==
    /\ archive = <<>>
    /\ raw_zip = FALSE
    /\ module = ""
    /\ processed = <<>>
    /\ proc = <<>>
    /\ part_way = FALSE
    /\ data = <<>>
    /\ validated = None

TensorUnused ==
    /\ arg_x = <<>>
    /\ arg_element = 0
    /\ arg_replace = 0
    /\ first_appearances = <<>>
    /\ outs = None

CallbackUnused ==
    /\ trainer_logger = None
    /\ on_train = FALSE
    /\ has_wandb = FALSE
    /\ rank = 0
    /\ invoked = <<>>
    /\ warnings = <<>>
    /\ last_check = None

CleanupUnused ==
    /\ args = <<>>
    /\ runs = <<>>
    /\ printed = <<>>
    /\ deleted = <<>>
    /\ main_pc = ""

DownloadUnused ==
    /\ dl_file = None
    /\ extracted = None
    /\ returned_filename = FALSE
    /\ fetched = <<>>

LinesUnused ==
    /\ line_dir = <<>>
    /\ line_saved = <<>>
    /\ line_listing = <<>>
    /\ line_loaded = None

DictUnused ==
    /\ ids_by_split = <<>>
    /\ split_by_id = <<>>

IoUnused ==
    /\ DownloadUnused
    /\ LinesUnused
    /\ DictUnused

UtilUnused ==
    /\ TensorUnused
    /\ CallbackUnused
    /\ CleanupUnused
    /\ IoUnused

ExtUnused ==
    /\ CacheUnused
    /\ UtilUnused

----------------------------------------------------------------------------
\* The splits of a constructed IAM over an extracted dataset.

InitSplits ==
    /\ ExtUnused
    /\ \E stems \in SUBSET Stems : xml_files = [id \in stems |-> <<>>]
    /\ split_files \in SplitFiles
    /\ cached = {}
    /\ all_ids = <<>>
    /\ test_ids = <<>>
    /\ validation_ids = <<>>
    /\ train_ids = <<>>
    /\ line_strings_by_id = <<>>
    /\ line_regions_by_id = <<>>
    /\ paragraph_string_by_id = <<>>
    /\ paragraph_region_by_id = <<>>
    /\ raised = "none"
    /\ FnUnused
    /\ SynthUnused

NextSplits ==
    \/ Get_all_ids
    \/ Get_test_ids
    \/ Get_validation_ids
    \/ Get_train_ids
    \/ Get_ids_by_split
    \/ Get_split_by_id

SpecSplits == InitSplits /\ [][NextSplits]_vars

----------------------------------------------------------------------------
\* The line strings and regions of a constructed IAM over an extracted dataset.

InitRegions ==
    /\ ExtUnused
    /\ \E stems \in SUBSET Stems :
            xml_files \in [stems -> AnnotationFiles]
    /\ split_files = [testset |-> <<>>, validationset1 |-> <<>>, validationset2 |-> <<>>]
    /\ cached = {}
    /\ all_ids = <<>>
    /\ test_ids = <<>>
    /\ validation_ids = <<>>
    /\ train_ids = <<>>
    /\ line_strings_by_id = <<>>
    /\ line_regions_by_id = <<>>
    /\ paragraph_string_by_id = <<>>
    /\ paragraph_region_by_id = <<>>
    /\ raised = "none"
    /\ FnUnused
    /\ SynthUnused

NextRegions ==
    \/ Get_all_ids
    \/ Get_line_strings_by_id
    \/ Get_line_regions_by_id
    \/ Get_paragraph_string_by_id
    \/ Get_paragraph_region_by_id

SpecRegions == InitRegions /\ [][NextRegions]_vars

----------------------------------------------------------------------------
\* _get_region_from_xml_element on its own, over the unit elements it may find.

UnitElements ==
    {Atom(x, y, width, height) :
        x \in {7, 10, 30}, y \in {20, 22}, width \in {5, 6}, height \in {8, 9}}

Call_get_region_from_xml_element ==
    /\ UNCHANGED ext_vars
    /\ ~ returned
    /\ returned_region' = _get_region_from_xml_element(xml_elem)
    /\ returned' = TRUE
    /\ UNCHANGED <<iam_vars, raised, xml_elem, synth_vars>>

InitRegionFn ==
    /\ ExtUnused
    /\ IAMUnused
    /\ raised = "none"
    /\ xml_elem \in SeqsUpTo(UnitElements, MaxAtoms)
    /\ returned_region = None
    /\ returned = FALSE
    /\ SynthUnused

NextRegionFn == Call_get_region_from_xml_element

SpecRegionFn == InitRegionFn /\ [][NextRegionFn]_vars

----------------------------------------------------------------------------
\* A constructed IAMSyntheticParagraphsDataset, asked for items.

InitSynth ==
    /\ ExtUnused
    /\ IAMUnused
    /\ raised = "none"
    /\ FnUnused
    \* sample draws the lines of the pool in any order: the pools are taken
    \* with their lines sorted by kind
    /\ \E n \in 0..MaxPool :
        \E pool \in [1..n -> DOMAIN PoolLines] :
            /\ \A i, j \in 1..n : i < j => pool[i] <= pool[j]
            /\ line_crops = [i \in 1..n |-> PoolLines[pool[i]].crop]
            /\ line_labels = [i \in 1..n |-> PoolLines[pool[i]].label]
    /\ input_dims \in InputDims
    /\ output_dims \in OutputDims
    /\ seed_set = FALSE
    /\ seed = None
    /\ index = None
    /\ pc = "idle"
    /\ num_lines = 0
    /\ indices = <<>>
    /\ sampled_indices = <<>>
    /\ datum = None
    /\ labels = <<>>
    /\ attempts = 0

NextSynth ==
    \/ GetItem
    \/ Compose

SpecSynth == InitSynth /\ [][NextSynth]_vars

----------------------------------------------------------------------------
\* The crop store: data/iam_lines.py, data/iam_paragraphs.py and the
\* prepare_data and setup of data/iam_synthetic_paragraphs.py.

\* metadata/iam_paragraphs.py and metadata/iam_lines.py
IMAGE_SCALE_FACTOR == 2
IMAGE_HEIGHT == 56
IMAGE_WIDTH == 1536
LINES_OUTPUT_DIMS == <<89, 1>>

Modules == {"IAMLines", "IAMParagraphs", "IAMSyntheticParagraphs"}

\* the annotation files an archive may hold: one without lines, one with
\* one line, one with two.  Every crop of theirs has a positive height.
StoreAnnotationFiles == {<<>>, <<el_example>>, <<el_example, el_below>>}

StoreSplitFiles ==
    [testset : {<<>>, << <<"a01", "001", "00">> >>},
     validationset1 : {<<>>, << <<"a01", "000", "00">> >>},
     validationset2 : {<<>>}]

NoSplitFiles == [testset |-> <<>>, validationset1 |-> <<>>, validationset2 |-> <<>>]

Archives ==
    {[xml_files |-> x, split_files |-> s] :
        x \in UNION {[stems -> StoreAnnotationFiles] : stems \in SUBSET Stems},
        s \in StoreSplitFiles}

\* list + list + ...
RECURSIVE chain(_)
chain(lists) ==
    IF lists = <<>> THEN <<>> ELSE lists[1] \o chain(Tail(lists))

\* the values IAM.ids_by_split may have
ids_by_split_values ==
    UNION {{[train |-> tr, val |-> va, test |-> te] :
                tr \in train_ids_values(all_ids_value, te, va)} :
            te \in test_ids_values, va \in validation_ids_values}

\* what a fresh IAM() finds in the extracted dataset: the values of its
\* cachedproperties, and for those that may raise, their outcomes
IAMs ==
    {[ids_by_split |-> ibs,
      line_strings_by_id |-> line_strings_by_id_value,
      line_regions_by_id |-> lr,
      paragraph_string_by_id |->
            [id \in DOMAIN line_strings_by_id_value |->
                join(NEW_LINE_TOKEN, line_strings_by_id_value[id])],
      paragraph_region_by_id |->
            IF lr.raised = "none"
            THEN [raised |-> "none",
                  value |-> [id \in DOMAIN lr.value |-> paragraph_region(lr.value[id])]]
            ELSE lr] :
        ibs \in ids_by_split_values, lr \in line_regions_by_id_outcomes}

\* image.crop(coords): an image of the size of the box
crop(region) == Crop(region.y2 - region.y1, region.x2 - region.x1)

\* data/util.py
resize_image(image, scale_factor) ==
    Crop(image.height \div scale_factor, image.width \div scale_factor)

\* IAM.prepare_data, called on a fresh IAM()
IAM_prepare_data ==
    IF xml_filenames # {}
    THEN UNCHANGED <<xml_files, split_files, raw_zip>>
    ELSE \* _download_raw_dataset, then _extract_raw_dataset
         /\ raw_zip' = TRUE
         /\ xml_files' = archive.xml_files
         /\ split_files' = archive.split_files

\* data/iam_lines.py
generate_line_crops_and_labels(iam, split) ==
    LET split_ids == iam.ids_by_split[split]
        known == DOMAIN iam.line_strings_by_id
        failed(exception) == [raised |-> exception, crops |-> <<>>, labels |-> <<>>]
    IN  IF split_ids = <<>>
        THEN [raised |-> "none", crops |-> <<>>, labels |-> <<>>]
        ELSE IF split_ids[1] \notin known
        THEN failed("KeyError")
        ELSE IF iam.line_regions_by_id.raised # "none"
        THEN failed(iam.line_regions_by_id.raised)
        ELSE IF \E i \in DOMAIN split_ids : split_ids[i] \notin known
        THEN failed("KeyError")
        ELSE LET strings == chain([i \in DOMAIN split_ids |->
                                    iam.line_strings_by_id[split_ids[i]]])
                 regions == chain([i \in DOMAIN split_ids |->
                                    iam.line_regions_by_id.value[split_ids[i]]])
                 crops == [i \in DOMAIN regions |->
                            resize_image(crop(regions[i]), IMAGE_SCALE_FACTOR)]
             IN  IF Len(crops) # Len(strings)
                 THEN failed("AssertionError")
                 ELSE [raised |-> "none", crops |-> crops, labels |-> strings]

\* data/iam_paragraphs.py; crops and labels are dicts over the same keys
get_paragraph_crops_and_labels(iam, split) ==
    LET split_ids == iam.ids_by_split[split]
        known == DOMAIN iam.paragraph_string_by_id
        failed(exception) == [raised |-> exception, crops |-> <<>>, labels |-> <<>>]
    IN  IF split_ids = <<>>
        THEN [raised |-> "none", crops |-> <<>>, labels |-> <<>>]
        ELSE IF split_ids[1] \notin known
        THEN failed("KeyError")
        ELSE IF iam.paragraph_region_by_id.raised # "none"
        THEN failed(iam.paragraph_region_by_id.raised)
        ELSE IF \E i \in DOMAIN split_ids : split_ids[i] \notin known
        THEN failed("KeyError")
        ELSE [raised |-> "none",
              crops |-> [id \in Range(split_ids) |->
                            resize_image(crop(iam.paragraph_region_by_id.value[id]),
                                         IMAGE_SCALE_FACTOR)],
              labels |-> [id \in Range(split_ids) |-> iam.paragraph_string_by_id[id]]]

\* an effect prepare_data has still to make: a directory made, a file opened
\* for writing, its content written, a crop saved, the return of the save of
\* a split, or an exception raised
Op(op, split, name, content) ==
    [op |-> op, split |-> split, name |-> name, content |-> content]

Writes == {"mkdir", "open", "dump", "save"}

\* data/iam_lines.py
save_images_and_labels(crops, strings, split) ==
    << Op("mkdir", split, "", <<>>),
       Op("open", split, "_labels.json", <<>>),
       Op("dump", split, "_labels.json", strings) >>
    \o [ind \in DOMAIN crops |-> Op("save", split, ind - 1, crops[ind])]
    \o << Op("return", split, "", <<>>) >>

\* the keys of a dict filled in the order of a list
RECURSIVE dict_keys(_)
dict_keys(lst) ==
    IF lst = <<>> THEN <<>>
    ELSE LET before == dict_keys(DropLast(lst))
         IN  IF lst[Len(lst)] \in Range(before) THEN before
             ELSE Append(before, lst[Len(lst)])

\* data/iam_paragraphs.py; keys is crops.keys()
save_crops_and_labels(crops, strings, split, keys) ==
    << Op("mkdir", split, "", <<>>),
       Op("open", split, "_labels.json", <<>>),
       Op("dump", split, "_labels.json", strings) >>
    \o [i \in DOMAIN keys |-> Op("save", split, keys[i], crops[keys[i]])]
    \o << Op("return", split, "", <<>>) >>

\* the crop of the largest width / height, as the pair <<width, height>>
max_aspect_ratio(crops) ==
    LET c == CHOOSE c \in Range(crops) :
                \A d \in Range(crops) : c.width * d.height >= d.width * c.height
    IN  <<c.width, c.height>>

\* label.count(NEW_LINE_TOKEN) + 1
_num_lines(label) ==
    Cardinality({i \in DOMAIN label : label[i] = NEW_LINE_TOKEN}) + 1

\* the effects of IAMLines.prepare_data once the cache target is found missing
IAMLines_prepare_data(iam) ==
    LET order == <<"train", "val", "test">>
        got == [i \in 1..3 |-> generate_line_crops_and_labels(iam, order[i])]
        failing == {i \in 1..3 : got[i].raised # "none"}
        crops == got[1].crops \o got[2].crops \o got[3].crops
    IN  IF failing # {}
        THEN << Op("raise", "", "", got[min(failing)].raised) >>
        ELSE IF crops = <<>>
        THEN \* shapes[:, 0] of an array of no shapes
             << Op("raise", "", "", "IndexError") >>
        ELSE chain([i \in 1..3 |->
                        save_images_and_labels(got[i].crops, got[i].labels, order[i])])
             \o << Op("open", "", "_max_aspect_ratio.txt", <<>>),
                   Op("dump", "", "_max_aspect_ratio.txt", max_aspect_ratio(crops)) >>

\* the effects of IAMParagraphs.prepare_data once the marker is found missing
\* a slip: _properties.json written before the splits are saved
IAMParagraphs_prepare_data_marker_first(iam) ==
    LET order == <<"train", "val", "test">>
        got == [i \in 1..3 |-> get_paragraph_crops_and_labels(iam, order[i])]
        failing == {i \in 1..3 : got[i].raised # "none"}
        saved == IF failing = {} THEN 3 ELSE min(failing) - 1
        saves == chain([i \in 1..saved |->
                        save_crops_and_labels(got[i].crops, got[i].labels, order[i],
                                              dict_keys(iam.ids_by_split[order[i]]))])
        \* properties.update: the later split replaces the entry of the earlier
        split_of(id) == max({i \in 1..3 : id \in DOMAIN got[i].labels})
        properties ==
            [id \in UNION {DOMAIN got[i].labels : i \in 1..3} |->
                [crop_shape |-> << got[split_of(id)].crops[id].height,
                                   got[split_of(id)].crops[id].width >>,
                 label_length |-> Len(got[split_of(id)].labels[id]),
                 num_lines |-> _num_lines(got[split_of(id)].labels[id])]]
    IN  IF failing # {}
        THEN saves \o << Op("raise", "", "", got[min(failing)].raised) >>
        ELSE << Op("mkdir", "train", "", <<>>),
                Op("open", "", "_properties.json", <<>>),
                Op("dump", "", "_properties.json", properties) >> \o saves

IAMParagraphs_prepare_data(iam) ==
    LET order == <<"train", "val", "test">>
        got == [i \in 1..3 |-> get_paragraph_crops_and_labels(iam, order[i])]
        failing == {i \in 1..3 : got[i].raised # "none"}
        saved == IF failing = {} THEN 3 ELSE min(failing) - 1
        saves == chain([i \in 1..saved |->
                        save_crops_and_labels(got[i].crops, got[i].labels, order[i],
                                              dict_keys(iam.ids_by_split[order[i]]))])
        \* properties.update: the later split replaces the entry of the earlier
        split_of(id) == max({i \in 1..3 : id \in DOMAIN got[i].labels})
        properties ==
            [id \in UNION {DOMAIN got[i].labels : i \in 1..3} |->
                [crop_shape |-> << got[split_of(id)].crops[id].height,
                                   got[split_of(id)].crops[id].width >>,
                 label_length |-> Len(got[split_of(id)].labels[id]),
                 num_lines |-> _num_lines(got[split_of(id)].labels[id])]]
    IN  IF failing # {}
        THEN saves \o << Op("raise", "", "", got[min(failing)].raised) >>
        ELSE saves \o << Op("open", "", "_properties.json", <<>>),
                         Op("dump", "", "_properties.json", properties) >>

\* the effects of IAMSyntheticParagraphs.prepare_data once the directory is
\* found missing
IAMSyntheticParagraphs_prepare_data(iam) ==
    LET got == generate_line_crops_and_labels(iam, "train")
    IN  IF got.raised # "none"
        THEN << Op("raise", "", "", got.raised) >>
        ELSE save_images_and_labels(got.crops, got.labels, "train")

prepare_data_effects(m, iam) ==
    CASE m = "IAMLines" -> IAMLines_prepare_data(iam)
      [] m = "IAMParagraphs" -> IAMParagraphs_prepare_data(iam)
      [] m = "IAMSyntheticParagraphs" -> IAMSyntheticParagraphs_prepare_data(iam)

\* ---- PROCESSED_DATA_DIRNAME: exists, its split directories and its files.
\* A file opened for writing and not yet written is empty: None.

NoDir == [exists |-> FALSE, splits |-> <<>>, files |-> <<>>]

NoFiles == [files |-> <<>>, crops |-> <<>>]

\* d with key k set to v
put(d, k, v) == [x \in DOMAIN d \cup {k} |-> IF x = k THEN v ELSE d[x]]

\* the directory after a write
written(dir, op) ==
    CASE op.op = "mkdir" ->
            [exists |-> TRUE,
             splits |-> IF op.split \in DOMAIN dir.splits THEN dir.splits
                        ELSE put(dir.splits, op.split, NoFiles),
             files |-> dir.files]
      [] op.op \in {"open", "dump"} ->
            LET content == IF op.op = "open" THEN None ELSE Some(op.content)
            IN  IF op.split = ""
                THEN [dir EXCEPT !.files = put(@, op.name, content)]
                ELSE [dir EXCEPT !.splits[op.split].files = put(@, op.name, content)]
      [] op.op = "save" ->
            [dir EXCEPT !.splits[op.split].crops = put(@, op.name, op.content)]

\* a slip: a directory counts as the target once it holds a crop
cache_target_exists_with_crops(m, dir) ==
    IF m = "IAMParagraphs" THEN "_properties.json" \in DOMAIN dir.files
    ELSE \E split \in DOMAIN dir.splits : DOMAIN dir.splits[split].crops # {}

\* a slip: the target of every data module is the file written last
cache_target_exists_last_file(m, dir) ==
    IF m = "IAMSyntheticParagraphs" THEN dir.exists
    ELSE DOMAIN dir.files # {}

\* the test that opens prepare_data
cache_target_exists(m, dir) ==
    IF m = "IAMParagraphs" THEN "_properties.json" \in DOMAIN dir.files
    ELSE dir.exists

NoProcess == [pc |-> "idle", todo |-> <<>>, saved |-> {}, wrote |-> FALSE]

\* prepare_data is called: it returns at once, or finds what it has to do
Call_prepare_data ==
    /\ proc.pc # "saving"
    /\ raised' = "none"
    \* the IAM() of prepare_data is its own: the catalog state here is not its
    /\ UNCHANGED <<cached, all_ids, test_ids, validation_ids, train_ids,
                   line_strings_by_id, line_regions_by_id, paragraph_string_by_id,
                   paragraph_region_by_id, fn_vars, synth_vars, util_vars,
                   archive, module, processed, part_way, data, validated>>
    /\ IF cache_target_exists(module, processed)
       THEN /\ proc' = [NoProcess EXCEPT !.pc = "returned"]
            /\ UNCHANGED <<xml_files, split_files, raw_zip>>
       ELSE /\ IAM_prepare_data
            /\ \E iam \in IAMs' :
                proc' = [NoProcess EXCEPT !.pc = "saving",
                                          !.todo = prepare_data_effects(module, iam)]

\* the running prepare_data makes its next effect
Step_prepare_data ==
    /\ proc.pc = "saving"
    /\ LET op == Head(proc.todo)
           rest == Tail(proc.todo)
       IN  CASE op.op = "raise" ->
                    /\ raised' = op.content
                    /\ proc' = [proc EXCEPT !.pc = "raised", !.todo = <<>>]
                    /\ UNCHANGED processed
             [] op.op = "return" ->
                    /\ proc' = [proc EXCEPT !.pc = IF rest = <<>> THEN "returned" ELSE @,
                                            !.todo = rest,
                                            !.saved = @ \cup {op.split}]
                    /\ UNCHANGED <<processed, raised>>
             [] op.op \in Writes ->
                    /\ processed' = written(processed, op)
                    /\ proc' = [proc EXCEPT !.pc = IF rest = <<>> THEN "returned" ELSE @,
                                            !.todo = rest,
                                            !.wrote = TRUE]
                    /\ UNCHANGED raised
    /\ UNCHANGED <<iam_vars, fn_vars, synth_vars, util_vars,
                   archive, raw_zip, module, part_way, data, validated>>

\* the process running prepare_data is stopped
Interrupt ==
    /\ proc.pc = "saving"
    /\ proc' = [proc EXCEPT !.pc = "killed", !.todo = <<>>]
    /\ part_way' = (part_way \/ (proc.wrote /\ \E i \in DOMAIN proc.todo :
                                                    proc.todo[i].op \in Writes))
    /\ UNCHANGED <<iam_vars, raised, fn_vars, synth_vars, util_vars,
                   archive, raw_zip, module, processed, data, validated>>

\* the user deletes the processed directory; the run that filled it is over
Delete ==
    /\ proc.pc # "saving"
    /\ processed.exists
    /\ processed' = NoDir
    /\ proc' = NoProcess
    /\ part_way' = FALSE
    /\ UNCHANGED <<iam_vars, raised, fn_vars, synth_vars, util_vars,
                   archive, raw_zip, module, data, validated>>

\* ---- loading

\* sorted(..., key=int): the names in increasing order
sorted_by_int(names) ==
    CHOOSE s \in [1..Cardinality(names) -> names] :
        \A i, j \in 1..Cardinality(names) : i < j => s[i] < s[j]

\* the glob of a directory that does not exist finds nothing
load_processed_line_crops(split, dir) ==
    IF split \notin DOMAIN dir.splits THEN <<>>
    ELSE LET pngs == dir.splits[split].crops
             crop_filenames == sorted_by_int(DOMAIN pngs)
         IN  [i \in DOMAIN crop_filenames |-> pngs[crop_filenames[i]]]

\* open(...) and json.load of the labels file of a split
load_processed_line_labels(split, dir) ==
    IF split \notin DOMAIN dir.splits
    THEN [raised |-> "FileNotFoundError", value |-> <<>>]
    ELSE IF "_labels.json" \notin DOMAIN dir.splits[split].files
    THEN [raised |-> "FileNotFoundError", value |-> <<>>]
    ELSE IF dir.splits[split].files["_labels.json"] = None
    THEN [raised |-> "JSONDecodeError", value |-> <<>>]
    ELSE [raised |-> "none", value |-> dir.splits[split].files["_labels.json"][1]]

\* a slip: the counts are not compared
load_processed_crops_and_labels_unchecked(split, dir) ==
    LET crops == load_processed_line_crops(split, dir)
        strings == load_processed_line_labels(split, dir)
    IN  IF strings.raised # "none"
        THEN [raised |-> strings.raised, crops |-> <<>>, labels |-> <<>>]
        ELSE [raised |-> "none", crops |-> crops, labels |-> strings.value]

\* data/iam_lines.py
load_processed_crops_and_labels(split, dir) ==
    LET crops == load_processed_line_crops(split, dir)
        strings == load_processed_line_labels(split, dir)
    IN  IF strings.raised # "none"
        THEN [raised |-> strings.raised, crops |-> <<>>, labels |-> <<>>]
        ELSE IF Len(crops) # Len(strings.value)
        THEN [raised |-> "AssertionError", crops |-> <<>>, labels |-> <<>>]
        ELSE [raised |-> "none", crops |-> crops, labels |-> strings.value]

\* data/iam_paragraphs.py: load_processed_crops_and_labels
paragraphs_load_processed_crops_and_labels(split, dir) ==
    LET strings == load_processed_line_labels(split, dir)
        failed(exception) == [raised |-> exception, crops |-> <<>>, labels |-> <<>>]
    IN  IF strings.raised # "none"
        THEN failed(strings.raised)
        ELSE LET sorted_ids == sorted(DOMAIN strings.value)
                 pngs == dir.splits[split].crops
             IN  IF \E i \in DOMAIN sorted_ids : sorted_ids[i] \notin DOMAIN pngs
                 THEN failed("FileNotFoundError")
                 ELSE LET ordered_crops == [i \in DOMAIN sorted_ids |-> pngs[sorted_ids[i]]]
                          ordered_labels ==
                                [i \in DOMAIN sorted_ids |-> strings.value[sorted_ids[i]]]
                      IN  IF Len(ordered_crops) # Len(ordered_labels)
                          THEN failed("AssertionError")
                          ELSE [raised |-> "none", crops |-> ordered_crops,
                                labels |-> ordered_labels]

\* the splits setup(stage) loads, in its order
stage_splits(stage) ==
    CASE stage = "fit" -> <<"train", "val">>
      [] stage = "test" -> <<"test">>
      [] stage = "None" -> <<"train", "val", "test">>

\* the datasets assigned before the first load that fails, and its exception
datasets_until_failure(splits, outcome) ==
    LET failing == {i \in DOMAIN splits : outcome[i].raised # "none"}
        n == IF failing = {} THEN Len(splits) ELSE min(failing) - 1
    IN  [raised |-> IF failing = {} THEN "none" ELSE outcome[min(failing)].raised,
         data |-> [split \in {splits[i] : i \in 1..n} |->
                    LET i == CHOOSE i \in 1..n : splits[i] = split
                    IN  [crops |-> outcome[i].crops, labels |-> outcome[i].labels]]]

\* d.update(e)
update(d, e) == [x \in DOMAIN d \cup DOMAIN e |-> IF x \in DOMAIN e THEN e[x] ELSE d[x]]

\* assert output_dims[0] >= max([len(_) for _ in labels]) + 2, over the splits
\* given; max of an empty list raises
sequence_lengths_checked(splits, datasets) ==
    IF \E i \in DOMAIN splits : datasets[splits[i]].labels = <<>>
    THEN "ValueError"
    ELSE IF \E i \in DOMAIN splits :
                \E l \in Range(datasets[splits[i]].labels) :
                    LINES_OUTPUT_DIMS[1] < Len(l) + 2
    THEN "AssertionError"
    ELSE "none"

\* IAMLines.setup: the exception it ends with and the datasets it has assigned
IAMLines_setup(stage, dir) ==
    IF "_max_aspect_ratio.txt" \notin DOMAIN dir.files
    THEN [raised |-> "FileNotFoundError", data |-> <<>>]
    ELSE IF dir.files["_max_aspect_ratio.txt"] = None
    THEN [raised |-> "ValueError", data |-> <<>>]
    ELSE LET max_aspect_ratio_ == dir.files["_max_aspect_ratio.txt"][1]
             image_width == (IMAGE_HEIGHT * max_aspect_ratio_[1]) \div max_aspect_ratio_[2]
             fit_splits == IF stage = "test" THEN <<>> ELSE <<"train", "val">>
             test_splits == IF stage = "fit" THEN <<>> ELSE <<"test">>
             fit == datasets_until_failure(fit_splits,
                        [i \in DOMAIN fit_splits |->
                            load_processed_crops_and_labels(fit_splits[i], dir)])
             fit_checked == IF fit.raised # "none" THEN fit.raised
                            ELSE sequence_lengths_checked(fit_splits, fit.data)
             test == datasets_until_failure(test_splits,
                        [i \in DOMAIN test_splits |->
                            load_processed_crops_and_labels(test_splits[i], dir)])
             test_checked == IF test.raised # "none" THEN test.raised
                             ELSE sequence_lengths_checked(test_splits, test.data)
         IN  IF image_width > IMAGE_WIDTH
             THEN [raised |-> "AssertionError", data |-> <<>>]
             ELSE IF fit_checked # "none"
             THEN [raised |-> fit_checked, data |-> fit.data]
             ELSE [raised |-> test_checked, data |-> update(fit.data, test.data)]

\* get_dataset_properties: the largest crop shape and label length
get_dataset_properties(dir) ==
    IF "_properties.json" \notin DOMAIN dir.files
    THEN [raised |-> "FileNotFoundError"]
    ELSE IF dir.files["_properties.json"] = None
    THEN [raised |-> "JSONDecodeError"]
    ELSE LET properties == dir.files["_properties.json"][1]
         IN  IF DOMAIN properties = {}
             THEN \* crop_shapes[:, 1] of an array of no shapes
                  [raised |-> "IndexError"]
             ELSE [raised |-> "none",
                   label_length |->
                        [max |-> max({properties[id].label_length : id \in DOMAIN properties})],
                   crop_shape |->
                        [max |-> << max({properties[id].crop_shape[1] : id \in DOMAIN properties}),
                                    max({properties[id].crop_shape[2] : id \in DOMAIN properties}) >>]]

\* the exception validate_input_and_output_dimensions raises, or none:
\* max_image_shape is the stored shape / IMAGE_SCALE_FACTOR, a true division
validate_input_and_output_dimensions(input_dims_, output_dims_, dir) ==
    LET properties == get_dataset_properties(dir)
    IN  IF properties.raised # "none" THEN properties.raised
        ELSE IF ~ (/\ input_dims_[2] * IMAGE_SCALE_FACTOR >= properties.crop_shape.max[1]
                   /\ input_dims_[3] * IMAGE_SCALE_FACTOR >= properties.crop_shape.max[2])
        THEN "AssertionError"
        ELSE IF ~ (output_dims_[1] >= properties.label_length.max + 2)
        THEN "AssertionError"
        ELSE "none"

\* IAMParagraphs.setup after the validation
IAMParagraphs_setup(stage, dir) ==
    LET splits == stage_splits(stage)
    IN  datasets_until_failure(splits,
            [i \in DOMAIN splits |->
                paragraphs_load_processed_crops_and_labels(splits[i], dir)])

\* IAMSyntheticParagraphs.setup: line_crops and line_labels are loaded once
\* for the data module, then the dataset checks their counts
IAMSyntheticParagraphs_setup(stage, dir, loaded) ==
    IF stage = "test" THEN [raised |-> "none", data |-> <<>>]
    ELSE LET crops == IF "line_crops" \in DOMAIN loaded THEN loaded.line_crops
                      ELSE load_processed_line_crops("train", dir)
             strings == IF "line_labels" \in DOMAIN loaded
                        THEN [raised |-> "none", value |-> loaded.line_labels]
                        ELSE load_processed_line_labels("train", dir)
             fields == [f \in {"line_crops"} |-> crops]
         IN  IF strings.raised # "none"
             THEN [raised |-> strings.raised, data |-> fields]
             ELSE IF Len(crops) # Len(strings.value)
             THEN [raised |-> "AssertionError",
                   data |-> put(fields, "line_labels", strings.value)]
             ELSE [raised |-> "none",
                   data |-> put(put(fields, "line_labels", strings.value), "train",
                                [crops |-> crops, labels |-> strings.value])]

\* the dimensions a paragraph data module may be configured with
StoreInputDims == {<<1, 5, 7>>, <<1, 10, 14>>}
StoreOutputDims == {<<4, 1>>, <<20, 1>>}

Stages == {"fit", "test", "None"}

\* setup(stage) of the data module
Setup ==
    /\ proc.pc # "saving"
    /\ \E stage \in Stages :
        CASE module = "IAMLines" ->
                LET outcome == IAMLines_setup(stage, processed)
                IN  /\ raised' = outcome.raised
                    /\ data' = update(data, outcome.data)
                    /\ UNCHANGED validated
          [] module = "IAMSyntheticParagraphs" ->
                LET outcome == IAMSyntheticParagraphs_setup(stage, processed, data)
                IN  /\ raised' = outcome.raised
                    /\ data' = update(data, outcome.data)
                    /\ UNCHANGED validated
          [] module = "IAMParagraphs" ->
                \E input_dims_ \in StoreInputDims, output_dims_ \in StoreOutputDims :
                    LET checked == validate_input_and_output_dimensions(
                                        input_dims_, output_dims_, processed)
                        outcome == IAMParagraphs_setup(stage, processed)
                    IN  IF checked # "none"
                        THEN /\ raised' = checked
                             /\ validated' = None
                             /\ UNCHANGED data
                        ELSE /\ raised' = outcome.raised
                             /\ validated' = Some([input_dims |-> input_dims_,
                                                   output_dims |-> output_dims_])
                             /\ data' = update(data, outcome.data)
    /\ UNCHANGED <<iam_vars, fn_vars, synth_vars, util_vars,
                   archive, raw_zip, module, processed, proc, part_way>>

\* A data module over a dataset archive, extracted already or not, and no
\* processed directory yet.
InitStore ==
    /\ archive \in Archives
    /\ \/ /\ xml_files = archive.xml_files
          /\ split_files = archive.split_files
          /\ raw_zip = TRUE
       \/ /\ xml_files = <<>>
          /\ split_files = NoSplitFiles
          /\ raw_zip \in BOOLEAN
    /\ cached = {}
    /\ all_ids = <<>>
    /\ test_ids = <<>>
    /\ validation_ids = <<>>
    /\ train_ids = <<>>
    /\ line_strings_by_id = <<>>
    /\ line_regions_by_id = <<>>
    /\ paragraph_string_by_id = <<>>
    /\ paragraph_region_by_id = <<>>
    /\ raised = "none"
    /\ FnUnused
    /\ SynthUnused
    /\ UtilUnused
    /\ module \in Modules
    /\ processed = NoDir
    /\ proc = NoProcess
    /\ part_way = FALSE
    /\ data = <<>>
    /\ validated = None

NextStore ==
    \/ Call_prepare_data
    \/ Step_prepare_data
    \/ Interrupt
    \/ Delete
    \/ Setup

SpecStore == InitStore /\ [][NextStore]_vars

----------------------------------------------------------------------------
\* lit_models/util.py: first_appearance and replace_after

\* rows and columns of the tensors tried
MaxB == 2

MaxS == 3

\* a row longer than a uint8 counts
LongLen == 258

\* the entries of the tensors tried; in a bool tensor 0 is False and 1 is True
Values == {0, 1}

Dtypes == {"int64", "bool"}

Tensor(dtype, rows) == [dtype |-> dtype, rows |-> rows]

\* x.shape[0] and x.shape[1] of a tensor of at least one row
shape0(x) == Len(x.rows)

shape1(x) == Len(x.rows[1])

\* a row of zeros with a one at index at, counted from 0
LongRow(one_at) == [s \in 1..LongLen |-> IF s = one_at + 1 THEN 1 ELSE 0]

Tensors ==
    {Tensor(dtype, rows) :
        dtype \in Dtypes,
        rows \in UNION {[1..b -> [1..s -> Values]] : b \in 1..MaxB, s \in 0..MaxS}}
    \cup {Tensor("uint8", <<LongRow(one_at)>>) : one_at \in {0, 1, LongLen - 1}}

\* torch.arange(start, end)
arange(start, end) == [i \in 1..(end - start) |-> start + i - 1]

\* Tensor.type_as of non-negative int64 values: the cast to the dtype of x
type_as(values, x) ==
    [i \in DOMAIN values |->
        CASE x.dtype = "bool" -> IF values[i] # 0 THEN 1 ELSE 0
          [] x.dtype = "uint8" -> values[i] % 256
          [] OTHER -> values[i]]

\* row.cumsum() of a row of booleans
cumsum(row) == [i \in DOMAIN row |-> Cardinality({j \in 1..i : row[j]})]

\* first_appearance(x, element, dim=1) of a two-dimensional x. Tensor.max
\* over a dimension of size zero raises; the index it gives for a row of
\* all False is not used.
first_appearance(x, element) ==
    IF shape1(x) = 0 THEN [raised |-> "IndexError", value |-> <<>>]
    ELSE LET matches == [b \in 1..shape0(x) |-> [s \in 1..shape1(x) |-> x.rows[b][s] = element]]
             first_appearance_mask ==
                [b \in 1..shape0(x) |->
                    [s \in 1..shape1(x) |-> cumsum(matches[b])[s] = 1 /\ matches[b][s]]]
             does_match == [b \in 1..shape0(x) |-> \E s \in 1..shape1(x) : first_appearance_mask[b][s]]
             match_index ==
                [b \in 1..shape0(x) |->
                    IF does_match[b]
                    THEN (CHOOSE s \in 1..shape1(x) : first_appearance_mask[b][s]) - 1
                    ELSE 0]
             first_inds == [b \in 1..shape0(x) |->
                                IF does_match[b] THEN match_index[b] ELSE shape1(x)]
         IN  [raised |-> "none", value |-> first_inds]

replace_after(x, element, replace_) ==
    LET first == first_appearance(x, element)
        indices_ == type_as(arange(0, shape1(x)), x)
    IN  IF first.raised # "none" THEN [raised |-> first.raised, first |-> <<>>, value |-> None]
        ELSE [raised |-> "none",
              first |-> first.value,
              value |-> Some([b \in 1..shape0(x) |->
                            [s \in 1..shape1(x) |->
                                IF indices_[s] <= first.value[b]
                                THEN x.rows[b][s] ELSE replace_]])]

\* replace_after is called on the tensor
Call_replace_after ==
    /\ outs = None
    /\ raised = "none"
    /\ LET result == replace_after(arg_x, arg_element, arg_replace)
       IN  /\ raised' = result.raised
           /\ first_appearances' = result.first
           /\ outs' = result.value
    /\ UNCHANGED <<iam_vars, fn_vars, synth_vars, cache_vars, callback_vars,
                   cleanup_vars, io_vars, arg_x, arg_element, arg_replace>>

InitTensor ==
    /\ IAMUnused
    /\ raised = "none"
    /\ FnUnused
    /\ SynthUnused
    /\ CacheUnused
    /\ CallbackUnused
    /\ CleanupUnused
    /\ IoUnused
    /\ arg_x \in Tensors
    /\ arg_element \in Values
    /\ arg_replace = 2
    /\ first_appearances = <<>>
    /\ outs = None

NextTensor ==
    \/ Call_replace_after

SpecTensor == InitTensor /\ [][NextTensor]_vars

----------------------------------------------------------------------------
\* callbacks/util.py and callbacks/imtotext.py

\* calls and warnings followed
MaxInvoked == 2

MaxWarnings == 2

\* the attributes every Python object has, None included
ObjectAttributes == {"__doc__"}

\* trainer.logger: none, or a logger with some of the logging methods
Loggers == {None} \cup {Some(attrs) : attrs \in SUBSET {"log_table", "log_image"}}

\* the attribute names check_and_warn is called with on its own
Attributes == {"__doc__", "log_table", "log_image", "qwertyuiop"}

hasattr(logger, attribute) ==
    \/ attribute \in ObjectAttributes
    \/ logger # None /\ attribute \in logger[1]

\* a slip: the test not negated
check_and_warn_if_present(logger, attribute, feature) ==
    IF hasattr(logger, attribute)
    THEN [value |-> TRUE, warned |-> <<[feature |-> feature, attribute |-> attribute]>>]
    ELSE [value |-> FALSE, warned |-> <<>>]

\* the value returned and what warn_no_attribute logged
check_and_warn(logger, attribute, feature) ==
    IF ~ hasattr(logger, attribute)
    THEN [value |-> TRUE, warned |-> <<[feature |-> feature, attribute |-> attribute]>>]
    ELSE [value |-> FALSE, warned |-> <<>>]

\* trainer.logger.<method>(key, ...)
CallLogger(method, key) ==
    IF hasattr(trainer_logger, method)
    THEN /\ invoked' = Append(invoked, [method |-> method, key |-> key])
         /\ raised' = "none"
    ELSE /\ raised' = "AttributeError"
         /\ UNCHANGED invoked

\* wandb is looked up once there is an image to wrap
_log_image_text_table(num_images, key) ==
    IF num_images > 0 /\ ~ has_wandb
    THEN /\ raised' = "NameError"
         /\ UNCHANGED invoked
    ELSE CallLogger("log_table", key)

_log_image_text_caption(num_images, key) ==
    CallLogger("log_image", key)

RequiredKeys == {"gt_strs", "pred_strs"}

has_metrics(output) == \A required \in RequiredKeys : required \in output

\* the body the five hooks share: under rank_zero_only, with the metrics
\* present, check_and_warn and then the logging; a hook is called while the
\* run has not failed
BatchEnd(enabled, attribute, feature, key, output, num_images) ==
    /\ Len(invoked) < MaxInvoked
    /\ Len(warnings) < MaxWarnings
    /\ IF rank = 0 /\ enabled /\ has_metrics(output)
       THEN LET result == check_and_warn(trainer_logger, attribute, feature)
            IN  /\ last_check' = Some([attribute |-> attribute, value |-> result.value])
                /\ warnings' = warnings \o result.warned
                /\ IF result.value
                   THEN UNCHANGED <<invoked, raised>>
                   ELSE IF attribute = "log_table"
                        THEN _log_image_text_table(num_images, key)
                        ELSE _log_image_text_caption(num_images, key)
       ELSE /\ last_check' = None
            /\ UNCHANGED <<invoked, warnings, raised>>
    /\ UNCHANGED <<iam_vars, fn_vars, synth_vars, cache_vars, tensor_vars,
                   cleanup_vars, io_vars, trainer_logger, on_train, has_wandb, rank>>

Outputs == SUBSET {"gt_strs", "pred_strs", "loss"}

Table_on_train_batch_end ==
    /\ raised = "none"
    /\ \E output \in Outputs, num_images \in 0..1 :
        BatchEnd(on_train, "log_table", "image-to-text table", "train/predictions",
                 output, num_images)

Table_on_validation_batch_end ==
    /\ raised = "none"
    /\ \E output \in Outputs, num_images \in 0..1 :
        BatchEnd(TRUE, "log_table", "image-to-text table", "validation/predictions",
                 output, num_images)

Caption_on_train_batch_end ==
    /\ raised = "none"
    /\ \E output \in Outputs, num_images \in 0..1 :
        BatchEnd(TRUE, "log_image", "image-to-text", "train/predictions",
                 output, num_images)

Caption_on_validation_batch_end ==
    /\ raised = "none"
    /\ \E output \in Outputs, num_images \in 0..1 :
        BatchEnd(TRUE, "log_image", "image-to-text", "validation/predictions",
                 output, num_images)

Caption_on_test_batch_end ==
    /\ raised = "none"
    /\ \E output \in Outputs, num_images \in 0..1 :
        BatchEnd(TRUE, "log_image", "image-to-text", "test/predictions",
                 output, num_images)

\* check_and_warn called on its own, as the tests do
Call_check_and_warn ==
    /\ raised = "none"
    /\ Len(warnings) < MaxWarnings
    /\ \E attribute \in Attributes :
            LET result == check_and_warn(trainer_logger, attribute, "tables")
            IN  /\ last_check' = Some([attribute |-> attribute, value |-> result.value])
                /\ warnings' = warnings \o result.warned
    /\ UNCHANGED <<iam_vars, raised, fn_vars, synth_vars, cache_vars, tensor_vars,
                   cleanup_vars, io_vars, trainer_logger, on_train, has_wandb, rank,
                   invoked>>

InitCallback ==
    /\ IAMUnused
    /\ raised = "none"
    /\ FnUnused
    /\ SynthUnused
    /\ CacheUnused
    /\ TensorUnused
    /\ CleanupUnused
    /\ IoUnused
    /\ trainer_logger \in Loggers
    /\ on_train \in BOOLEAN
    /\ has_wandb \in BOOLEAN
    /\ rank \in 0..1
    /\ invoked = <<>>
    /\ warnings = <<>>
    /\ last_check = None

NextCallback ==
    \/ Table_on_train_batch_end
    \/ Table_on_validation_batch_end
    \/ Caption_on_train_batch_end
    \/ Caption_on_validation_batch_end
    \/ Caption_on_test_batch_end
    \/ Call_check_and_warn

SpecCallback == InitCallback /\ [][NextCallback]_vars

----------------------------------------------------------------------------
\* training/cleanup_artifacts.py

DEFAULT_ENTITY == "me"

Artifact(id, aliases) == [id |-> id, aliases |-> aliases]

\* the project: the artifacts each run has logged, in the order they are listed
ProjectArtifacts ==
    [r1 |-> <<Artifact("a1", <<>>), Artifact("a2", <<"latest">>)>>,
     r2 |-> <<Artifact("a3", <<"best", "latest">>)>>]

RunIds == DOMAIN ProjectArtifacts

\* the runs of the project in the order api.runs lists them
ProjectRuns == <<"r2", "r1">>

\* the runs whose display name a regular expression matches
RegexMatches ==
    [all_runs |-> {"r1", "r2"}, second_run |-> {"r2"}, no_run |-> {}]

\* the command lines tried: at most one of --all, --no-alias and --aliases
CommandLines ==
    {a \in [entity : {None, Some("DEFAULT"), Some("me")},
            run_ids : {None, Some(<<>>), Some(<<"r1">>), Some(<<"r1", "r2">>)},
            run_name_res : {None, Some(<<"second_run">>), Some(<<"no_run", "all_runs">>)},
            all : BOOLEAN,
            no_alias : BOOLEAN,
            aliases : {None, Some(<<>>), Some(<<"latest">>), Some(<<"v0", "best">>)},
            verbose : BOOLEAN,
            dryrun : BOOLEAN] :
        /\ ~ (a.all /\ a.no_alias)
        /\ (a.all \/ a.no_alias) => a.aliases = None}

\* what a run of the script has printed and deleted so far
Effects(printed_, deleted_) == [printed |-> printed_, deleted |-> deleted_]

\* run.logged_artifacts(): the artifacts of the run that are not deleted
logged_artifacts(run, deleted_) ==
    SelectSeq(ProjectArtifacts[run],
              LAMBDA artifact : \A i \in DOMAIN deleted_ : deleted_[i].id # artifact.id)

\* the selector _get_selector_from(args) returns, applied to an artifact
_get_selector_from(a, artifact) ==
    IF a.all THEN TRUE
    ELSE IF a.no_alias THEN artifact.aliases = <<>>
    ELSE IF a.aliases # None /\ a.aliases[1] # <<>>
         THEN \E i \in DOMAIN a.aliases[1] :
                \E j \in DOMAIN artifact.aliases : a.aliases[1][i] = artifact.aliases[j]
    ELSE FALSE

\* a slip: the deletion made unless verbose
remove_artifact_unless_verbose(artifact, protect_aliases, verbose, dryrun, done) ==
    LET shown == IF verbose \/ dryrun
                 THEN Append(done.printed, [what |-> "artifact", id |-> artifact.id])
                 ELSE done.printed
    IN  IF ~ verbose
        THEN Effects(shown, Append(done.deleted,
                        [id |-> artifact.id, delete_aliases |-> ~ protect_aliases]))
        ELSE Effects(shown, done.deleted)

remove_artifact(artifact, protect_aliases, verbose, dryrun, done) ==
    LET shown == IF verbose \/ dryrun
                 THEN Append(done.printed, [what |-> "artifact", id |-> artifact.id])
                 ELSE done.printed
    IN  IF ~ dryrun
        THEN Effects(shown, Append(done.deleted,
                        [id |-> artifact.id, delete_aliases |-> ~ protect_aliases]))
        ELSE Effects(shown, done.deleted)

\* the loop of clean_run_artifacts over the artifacts listed
RECURSIVE clean_artifacts(_, _, _, _, _, _)
clean_artifacts(artifacts, a, protect_aliases, verbose, dryrun, done) ==
    IF artifacts = <<>> THEN done
    ELSE clean_artifacts(Tail(artifacts), a, protect_aliases, verbose, dryrun,
            IF _get_selector_from(a, Head(artifacts))
            THEN remove_artifact(Head(artifacts), protect_aliases, verbose, dryrun, done)
            ELSE done)

clean_run_artifacts(run, a, protect_aliases, verbose, dryrun, done) ==
    clean_artifacts(logged_artifacts(run, done.deleted), a, protect_aliases,
                    verbose, dryrun, done)

\* the runs of _get_runs_by_name_re
_get_runs_by_name_re(run_name_re) ==
    SelectSeq(ProjectRuns, LAMBDA run : run \in RegexMatches[run_name_re])

\* the runs _get_runs returns: those named, then those matched
_get_runs(run_ids, run_name_res) ==
    (IF run_ids = None THEN <<>> ELSE run_ids[1])
        \o chain([i \in DOMAIN (IF run_name_res = None THEN <<>> ELSE run_name_res[1]) |->
                    _get_runs_by_name_re(run_name_res[1][i])])

\* main up to its loop: the entity, the runs and what -v prints of them
Main_start ==
    /\ main_pc = "start"
    /\ IF args.entity = None
       THEN /\ raised' = "RuntimeError"
            /\ main_pc' = "raised"
            /\ UNCHANGED <<runs, printed>>
       ELSE LET selected == _get_runs(args.run_ids, args.run_name_res)
            IN  /\ runs' = selected
                /\ printed' = IF args.verbose
                              THEN [i \in DOMAIN selected |->
                                        [what |-> "run", id |-> selected[i]]]
                              ELSE <<>>
                /\ main_pc' = "cleaning"
                /\ UNCHANGED raised
    /\ UNCHANGED <<iam_vars, fn_vars, synth_vars, cache_vars, tensor_vars, callback_vars,
                   io_vars, args, deleted>>

\* one turn of the loop of main
Main_clean_run ==
    /\ main_pc = "cleaning"
    /\ runs # <<>>
    /\ LET done == clean_run_artifacts(Head(runs), args, args.no_alias, args.verbose,
                                       args.dryrun, Effects(printed, deleted))
       IN  /\ printed' = done.printed
           /\ deleted' = done.deleted
    /\ runs' = Tail(runs)
    /\ UNCHANGED <<iam_vars, raised, fn_vars, synth_vars, cache_vars, tensor_vars,
                   callback_vars, io_vars, args, main_pc>>

\* the loop is over
Main_return ==
    /\ main_pc = "cleaning"
    /\ runs = <<>>
    /\ main_pc' = "returned"
    /\ UNCHANGED <<iam_vars, raised, fn_vars, synth_vars, cache_vars, tensor_vars,
                   callback_vars, io_vars, args, runs, printed, deleted>>

InitCleanup ==
    /\ IAMUnused
    /\ raised = "none"
    /\ FnUnused
    /\ SynthUnused
    /\ CacheUnused
    /\ TensorUnused
    /\ CallbackUnused
    /\ IoUnused
    /\ args \in CommandLines
    /\ runs = <<>>
    /\ printed = <<>>
    /\ deleted = <<>>
    /\ main_pc = "start"

NextCleanup ==
    \/ Main_start
    \/ Main_clean_run
    \/ Main_return

SpecCleanup == InitCleanup /\ [][NextCleanup]_vars

----------------------------------------------------------------------------
\* data/base_data_module.py and data/iam.py: the raw dataset

\* downloads followed
MaxDownloads == 3

\* what urlretrieve can leave behind: the archive of the metadata; a zip
\* archive of other contents; a file that is no zip archive, complete or cut
\* short; or nothing, the URL not being reached
Responses == {"listed", "other_zip", "no_zip", "short", "unreachable"}

\* util.compute_sha256 of a file, as far as it equals metadata["sha256"]
sha256_matches(contents) == contents = "listed"

\* _download_raw_dataset(metadata, dl_dirname) where the URL gives response:
\* the file left at filename, whether filename is returned, the exception
_download_raw_dataset(file, response) ==
    IF file # None
    THEN [file |-> file, returned |-> TRUE, raised |-> "none", fetched |-> <<>>]
    ELSE CASE response = "unreachable" ->
                [file |-> None, returned |-> FALSE, raised |-> "URLError",
                 fetched |-> <<response>>]
           [] response = "short" ->
                [file |-> Some("no_zip"), returned |-> FALSE,
                 raised |-> "ContentTooShortError", fetched |-> <<response>>]
           [] OTHER ->
                IF ~ sha256_matches(response)
                THEN [file |-> Some(response), returned |-> FALSE,
                      raised |-> "ValueError", fetched |-> <<response>>]
                ELSE [file |-> Some(response), returned |-> TRUE, raised |-> "none",
                      fetched |-> <<response>>]

\* _download_raw_dataset called on its own
Call_download_raw_dataset ==
    /\ Len(fetched) < MaxDownloads
    /\ \E response \in Responses :
            LET result == _download_raw_dataset(dl_file, response)
            IN  /\ dl_file' = result.file
                /\ returned_filename' = result.returned
                /\ raised' = result.raised
                /\ fetched' = fetched \o result.fetched
    /\ UNCHANGED <<iam_vars, fn_vars, synth_vars, cache_vars, tensor_vars, callback_vars,
                   cleanup_vars, lines_vars, dict_vars, extracted>>

\* IAM().prepare_data(): nothing when the annotation files are there, else
\* the download and the extraction of what filename holds
Call_IAM_prepare_data ==
    /\ Len(fetched) < MaxDownloads
    /\ IF extracted # None
       THEN /\ raised' = "none"
            /\ returned_filename' = FALSE
            /\ UNCHANGED <<dl_file, extracted, fetched>>
       ELSE \E response \in Responses :
                LET result == _download_raw_dataset(dl_file, response)
                IN  /\ dl_file' = result.file
                    /\ returned_filename' = result.returned
                    /\ fetched' = fetched \o result.fetched
                    /\ IF ~ result.returned
                       THEN /\ raised' = result.raised
                            /\ UNCHANGED extracted
                       ELSE IF result.file = Some("no_zip")
                            THEN /\ raised' = "BadZipFile"
                                 /\ UNCHANGED extracted
                            ELSE /\ raised' = "none"
                                 /\ extracted' = result.file
    /\ UNCHANGED <<iam_vars, fn_vars, synth_vars, cache_vars, tensor_vars, callback_vars,
                   cleanup_vars, lines_vars, dict_vars>>

\* the user removes the downloaded file, to have it fetched again
Remove_raw_file ==
    /\ dl_file # None
    /\ dl_file' = None
    /\ returned_filename' = FALSE
    /\ UNCHANGED <<iam_vars, raised, fn_vars, synth_vars, cache_vars, tensor_vars,
                   callback_vars, cleanup_vars, lines_vars, dict_vars,
                   extracted, fetched>>

InitDownload ==
    /\ IAMUnused
    /\ raised = "none"
    /\ FnUnused
    /\ SynthUnused
    /\ CacheUnused
    /\ TensorUnused
    /\ CallbackUnused
    /\ CleanupUnused
    /\ LinesUnused
    /\ DictUnused
    /\ dl_file = None
    /\ extracted = None
    /\ returned_filename = FALSE
    /\ fetched = <<>>

NextDownload ==
    \/ Call_download_raw_dataset
    \/ Call_IAM_prepare_data
    \/ Remove_raw_file

SpecDownload == InitDownload /\ [][NextDownload]_vars

----------------------------------------------------------------------------
\* The directory of line crops, with the names of its files.

Splits == {"train", "val", "test"}

\* the most crops saved for a split
MaxCrops == 11

Digits == <<"0", "1", "2", "3", "4", "5", "6", "7", "8", "9">>

\* str(n) of n >= 0
RECURSIVE str_of_int(_)
str_of_int(n) ==
    IF n < 10 THEN <<Digits[n + 1]>>
    ELSE str_of_int(n \div 10) \o <<Digits[(n % 10) + 1]>>

digit_value(c) == CHOOSE d \in 0..9 : Digits[d + 1] = c

\* int(s) of a string of digits
RECURSIVE int_of_str(_)
int_of_str(s) ==
    IF Len(s) = 1 THEN digit_value(s[1])
    ELSE 10 * int_of_str(DropLast(s)) + digit_value(s[Len(s)])

PNG == <<".", "p", "n", "g">>

LABELS_FILENAME == <<"_", "l", "a", "b", "e", "l", "s", ".", "j", "s", "o", "n">>

\* f"{ind}.png"
png_filename(ind) == str_of_int(ind) \o PNG

\* Path(filename).stem: the name up to its last dot
stem(filename) ==
    SubSeq(filename, 1, max({i \in DOMAIN filename : filename[i] = "."}) - 1)

\* glob("*.png"): the entries that end in .png, in the order they are met
glob_png(listing) ==
    SelectSeq(listing, LAMBDA name :
        /\ Len(name) >= Len(PNG)
        /\ SubSeq(name, Len(name) - Len(PNG) + 1, Len(name)) = PNG)

\* the code of a character of a crop's filename: a digit or the dot
char_code(c) == IF c \in Range(Digits) THEN digit_value(c) + 48 ELSE 46

\* a < b of two strings
RECURSIVE str_less(_, _)
str_less(a, b) ==
    IF b = <<>> THEN FALSE
    ELSE IF a = <<>> THEN TRUE
    ELSE IF a[1] = b[1] THEN str_less(Tail(a), Tail(b))
    ELSE char_code(a[1]) < char_code(b[1])

\* a slip: sorted without the key, the paths compared as they are
key_less_lexical(a, b) == str_less(a, b)

\* key=lambda filename: int(Path(filename).stem), compared
key_less(a, b) == int_of_str(stem(a)) < int_of_str(stem(b))

\* sorted(filenames, key=...): a stable sort
RECURSIVE sorted_by_key(_)
sorted_by_key(filenames) ==
    IF filenames = <<>> THEN <<>>
    ELSE LET before == sorted_by_key(DropLast(filenames))
             last == filenames[Len(filenames)]
             later == {i \in DOMAIN before : key_less(last, before[i])}
             place == IF later = {} THEN Len(before) + 1 ELSE min(later)
         IN  SubSeq(before, 1, place - 1) \o <<last>>
                \o SubSeq(before, place, Len(before))

\* save_images_and_labels into a directory just made: the entries in the
\* order they are made and the content of each file; a name saved twice
\* keeps what was saved last
files_of_save_images_and_labels(crops, strings) ==
    [order |-> <<LABELS_FILENAME>> \o [ind \in DOMAIN crops |-> png_filename(ind - 1)],
     files |-> [name \in {LABELS_FILENAME}
                            \cup {png_filename(ind - 1) : ind \in DOMAIN crops} |->
                    IF name = LABELS_FILENAME THEN strings
                    ELSE crops[max({ind \in DOMAIN crops : png_filename(ind - 1) = name})]]]

\* load_processed_line_crops over the files of a split, met in the order of
\* listing
load_processed_line_crops_listed(listing, files) ==
    LET crop_filenames == sorted_by_key(glob_png(listing))
    IN  [i \in DOMAIN crop_filenames |-> files[crop_filenames[i]]]

\* load_processed_crops_and_labels over the files of a split
load_processed_crops_and_labels_listed(listing, files) ==
    LET crops == load_processed_line_crops_listed(listing, files)
        strings == files[LABELS_FILENAME]
    IN  IF Len(crops) # Len(strings)
        THEN [raised |-> "AssertionError", crops |-> <<>>, labels |-> <<>>]
        ELSE [raised |-> "none", crops |-> crops, labels |-> strings]

Reverse(s) == [i \in DOMAIN s |-> s[Len(s) + 1 - i]]

Rotate(s, r) == [i \in DOMAIN s |-> s[((i - 1 + r) % Len(s)) + 1]]

\* every second entry, then the others
EvenFirst(s) ==
    LET half == Len(s) \div 2
    IN  [i \in DOMAIN s |-> IF i <= half THEN s[2 * i] ELSE s[2 * (i - half) - 1]]

\* orders a directory hands its entries out in: the order they were made
\* in, its reverse, that order turned by some places, and every second entry
\* before the others
ListingOrders(order) ==
    {order, Reverse(order), EvenFirst(order)} \cup {Rotate(order, r) : r \in {1, 5}}

\* the crop cut for a line of a split and the line's transcription
LineCrop(split, line) == [split |-> split, line |-> line]

LineLabel(split, line) == <<split, "-">> \o str_of_int(line)

\* the numbers of lines a split has: few, or enough for names of two digits
LineCounts == (0..2) \cup ((MaxCrops - 2)..MaxCrops)

\* save_images_and_labels(crops, labels, split, ...) as prepare_data calls it,
\* into a directory that is not there yet
Call_save_images_and_labels ==
    /\ \E split \in Splits \ DOMAIN line_dir, n \in LineCounts :
        LET crops == [line \in 1..n |-> LineCrop(split, line)]
            strings == [line \in 1..n |-> LineLabel(split, line)]
        IN  /\ line_dir' = [s \in DOMAIN line_dir \cup {split} |->
                                IF s = split
                                THEN files_of_save_images_and_labels(crops, strings)
                                ELSE line_dir[s]]
            /\ line_saved' = [s \in DOMAIN line_saved \cup {split} |->
                                IF s = split THEN [crops |-> crops, labels |-> strings]
                                ELSE line_saved[s]]
    /\ UNCHANGED <<iam_vars, raised, fn_vars, synth_vars, cache_vars, tensor_vars,
                   callback_vars, cleanup_vars, download_vars, dict_vars,
                   line_listing, line_loaded>>

\* load_processed_crops_and_labels(split, ...), the directory handing out
\* its entries in one of its orders
Call_load_processed_crops_and_labels ==
    /\ \E split \in DOMAIN line_dir :
        \E listing \in ListingOrders(line_dir[split].order) :
            LET got == load_processed_crops_and_labels_listed(listing, line_dir[split].files)
            IN  /\ line_listing' = listing
                /\ line_loaded' = Some([split |-> split, raised |-> got.raised,
                                        crops |-> got.crops, labels |-> got.labels])
    /\ UNCHANGED <<iam_vars, raised, fn_vars, synth_vars, cache_vars, tensor_vars,
                   callback_vars, cleanup_vars, download_vars, dict_vars,
                   line_dir, line_saved>>

InitLines ==
    /\ IAMUnused
    /\ raised = "none"
    /\ FnUnused
    /\ SynthUnused
    /\ CacheUnused
    /\ TensorUnused
    /\ CallbackUnused
    /\ CleanupUnused
    /\ DownloadUnused
    /\ DictUnused
    /\ line_dir = <<>>
    /\ line_saved = <<>>
    /\ line_listing = <<>>
    /\ line_loaded = None

NextLines ==
    \/ Call_save_images_and_labels
    \/ Call_load_processed_crops_and_labels

SpecLines == InitLines /\ [][NextLines]_vars

----------------------------------------------------------------------------
\* The splits: C1, C2, C3

\* C1: once train_ids is computed, it shares no form ID with validation_ids
\* and none with test_ids, whatever the discovered forms and the split files.
C1_TrainDisjoint ==
    "train_ids" \in cached =>
        /\ Range(train_ids) \cap Range(validation_ids) = {}
        /\ Range(train_ids) \cap Range(test_ids) = {}

\* C1's case: the three splits are computed and none is empty.
C1_Witness ==
    /\ "train_ids" \in cached
    /\ train_ids # <<>>
    /\ validation_ids # <<>>
    /\ test_ids # <<>>

\* the forms a split-definition file names: the first two components of each
\* of its non-empty lines
C2_FormsNamed(file) ==
    {IF Len(l) >= 2 THEN <<l[1], l[2]>> ELSE l : l \in Range(file) \ {<<"">>}}

\* C2 as stated: validation_ids and test_ids share no form ID, for any
\* contents of the split-definition files.
C2_Original ==
    {"test_ids", "validation_ids"} \subseteq cached =>
        Range(validation_ids) \cap Range(test_ids) = {}

\* C2, amended: validation_ids and test_ids share exactly the forms that
\* testset.txt and one of the validation files both name, so they share no
\* form ID when the files name no form in common.
C2_SharedOnlyIfNamedInBoth ==
    {"test_ids", "validation_ids"} \subseteq cached =>
        Range(validation_ids) \cap Range(test_ids)
            = C2_FormsNamed(split_files.testset)
                \cap (C2_FormsNamed(split_files.validationset1)
                        \cup C2_FormsNamed(split_files.validationset2))

\* C2's case: both lists are computed from files that name different forms.
C2_Witness ==
    /\ {"test_ids", "validation_ids"} \subseteq cached
    /\ test_ids # <<>>
    /\ validation_ids # <<>>
    /\ Range(validation_ids) \cap Range(test_ids) = {}

C3_Union == Range(train_ids) \cup Range(validation_ids) \cup Range(test_ids)

\* C3 as stated: the union of the three splits equals all_ids.
C3_Original ==
    "train_ids" \in cached => C3_Union = Range(all_ids)

\* C3, amended: every ID of all_ids belongs to some split and train_ids holds
\* only IDs of all_ids; test_ids and validation_ids hold whatever the split
\* files name, so the union equals all_ids exactly when every form the split
\* files name is in all_ids.
C3_CoverOfAllIds ==
    "train_ids" \in cached =>
        /\ Range(all_ids) \subseteq C3_Union
        /\ Range(train_ids) \subseteq Range(all_ids)
        /\ (C3_Union = Range(all_ids)
              <=> Range(test_ids) \cup Range(validation_ids) \subseteq Range(all_ids))

\* C3's case: the splits are computed, each split-file form is discovered,
\* and the union is all_ids with a form in train and a form in test.
C3_Witness ==
    /\ "train_ids" \in cached
    /\ train_ids # <<>>
    /\ test_ids # <<>>
    /\ C3_Union = Range(all_ids)

----------------------------------------------------------------------------
\* Line strings and regions: C4, C7, C8, C9, C10

\* the regions of a form's lines before padding, when every line has one
UnpaddedRegions(id) ==
    [i \in DOMAIN xml_files[id] |->
        _get_region_from_xml_element(xml_files[id][i].atoms)[1]]

\* C4: when line_strings_by_id and line_regions_by_id are both computed, every
\* form of all_ids has as many line strings as line regions.
C4_CountParity ==
    {"all_ids", "line_strings_by_id", "line_regions_by_id"} \subseteq cached =>
        \A id \in Range(all_ids) :
            Len(line_strings_by_id[id]) = Len(line_regions_by_id[id])

\* C4's case: both dicts are computed over a form of two lines.
C4_Witness ==
    /\ {"all_ids", "line_strings_by_id", "line_regions_by_id"} \subseteq cached
    /\ \E id \in Range(all_ids) :
        /\ Len(line_strings_by_id[id]) = 2
        /\ Len(line_regions_by_id[id]) = 2

\* C7 as stated: for consecutive lines whose gap is below 2 * padding, the
\* padded y2 of the upper line is at most the unpadded y1 of the lower one.
C7_Original ==
    "line_regions_by_id" \in cached =>
        \A id \in DOMAIN line_regions_by_id :
            \A i \in 1..(Len(line_regions_by_id[id]) - 1) :
                LET unpadded == UnpaddedRegions(id)
                    gap == max2(unpadded[i + 1].y1 - unpadded[i].y2, 0)
                IN  gap < 2 * LINE_REGION_PADDING =>
                        line_regions_by_id[id][i].y2 <= unpadded[i + 1].y1

\* C7, amended: the same, for consecutive lines whose unpadded boxes do not
\* overlap vertically (the unpadded y1 of the lower line is at least the
\* unpadded y2 of the upper one).  Lines that overlap before padding still
\* overlap after it.
C7_NoOverlapFromPadding ==
    "line_regions_by_id" \in cached =>
        \A id \in DOMAIN line_regions_by_id :
            \A i \in 1..(Len(line_regions_by_id[id]) - 1) :
                LET unpadded == UnpaddedRegions(id)
                    gap == max2(unpadded[i + 1].y1 - unpadded[i].y2, 0)
                IN  (/\ gap < 2 * LINE_REGION_PADDING
                     /\ unpadded[i + 1].y1 >= unpadded[i].y2) =>
                        line_regions_by_id[id][i].y2 <= unpadded[i + 1].y1

\* C7's case: two consecutive lines a small gap apart, the upper one padded
\* below by less than the full padding.
C7_Witness ==
    /\ "line_regions_by_id" \in cached
    /\ \E id \in DOMAIN line_regions_by_id :
        \E i \in 1..(Len(line_regions_by_id[id]) - 1) :
            LET unpadded == UnpaddedRegions(id)
                gap == unpadded[i + 1].y1 - unpadded[i].y2
            IN  /\ 0 < gap
                /\ gap < 2 * LINE_REGION_PADDING
                /\ line_regions_by_id[id][i].y2 > unpadded[i].y2
                /\ line_regions_by_id[id][i].y2
                        < unpadded[i].y2 + LINE_REGION_PADDING

C8_NonNegativeExtents(line) ==
    \A i \in DOMAIN line.atoms :
        line.atoms[i].width >= 0 /\ line.atoms[i].height >= 0

\* C8: every line region of the catalog has x1 <= x2 and y1 <= y2, before and
\* after padding, when the line's coordinate atoms have non-negative width and
\* height.
C8_OrderedCorners ==
    "line_regions_by_id" \in cached =>
        \A id \in DOMAIN line_regions_by_id :
            \A i \in DOMAIN line_regions_by_id[id] :
                C8_NonNegativeExtents(xml_files[id][i]) =>
                    LET before == UnpaddedRegions(id)[i]
                        after == line_regions_by_id[id][i]
                    IN  /\ before.x1 <= before.x2
                        /\ before.y1 <= before.y2
                        /\ after.x1 <= after.x2
                        /\ after.y1 <= after.y2

\* C8's case: the regions are computed for a form of two lines whose atoms
\* have non-negative extents, the lower one starting above the upper one's end.
C8_Witness ==
    /\ "line_regions_by_id" \in cached
    /\ \E id \in DOMAIN line_regions_by_id :
        /\ Len(line_regions_by_id[id]) = 2
        /\ \A i \in 1..2 : C8_NonNegativeExtents(xml_files[id][i])
        /\ UnpaddedRegions(id)[2].y1 < UnpaddedRegions(id)[1].y2

\* C9: the paragraph region of a form contains each of its padded line
\* regions, and each of its four bounds is the bound of one of them.
C9_BoundingUnion ==
    "paragraph_region_by_id" \in cached =>
        \A id \in DOMAIN paragraph_region_by_id :
            LET p == paragraph_region_by_id[id]
                lines == line_regions_by_id[id]
            IN  /\ \A i \in DOMAIN lines :
                    /\ p.x1 <= lines[i].x1
                    /\ p.y1 <= lines[i].y1
                    /\ p.x2 >= lines[i].x2
                    /\ p.y2 >= lines[i].y2
                /\ \E i \in DOMAIN lines : p.x1 = lines[i].x1
                /\ \E i \in DOMAIN lines : p.y1 = lines[i].y1
                /\ \E i \in DOMAIN lines : p.x2 = lines[i].x2
                /\ \E i \in DOMAIN lines : p.y2 = lines[i].y2

\* C9's case: the paragraph region of a form of two lines is neither line's
\* own region.
C9_Witness ==
    /\ "paragraph_region_by_id" \in cached
    /\ \E id \in DOMAIN paragraph_region_by_id :
        /\ Len(line_regions_by_id[id]) = 2
        /\ paragraph_region_by_id[id] # line_regions_by_id[id][1]
        /\ paragraph_region_by_id[id] # line_regions_by_id[id][2]

\* q is the floor of m / d
C10_IsFloor(q, m, d) == d * q <= m /\ m < d * (q + 1)

\* m is the least (greatest) of S
C10_IsMin(m, S) == m \in S /\ \A n \in S : m <= n

C10_IsMax(m, S) == m \in S /\ \A n \in S : m >= n

\* C10: for a non-empty list of atoms the region returned has x1, y1 the
\* floors of min(x) / d, min(y) / d and x2, y2 the floors of max(x + width) / d,
\* max(y + height) / d, d the downsample factor; the atoms (10, 20, 5, 8) and
\* (30, 22, 6, 9) give x1 = 5, y1 = 10, x2 = 18, y2 = 15; the empty list gives
\* None.
C10_RegionOfAtoms ==
    returned =>
        /\ xml_elem = <<>> => returned_region = None
        /\ xml_elem # <<>> =>
            /\ Len(returned_region) = 1
            /\ \E mx \in {el.x : el \in Range(xml_elem)},
                  my \in {el.y : el \in Range(xml_elem)},
                  Mx \in {el.x + el.width : el \in Range(xml_elem)},
                  My \in {el.y + el.height : el \in Range(xml_elem)} :
                /\ C10_IsMin(mx, {el.x : el \in Range(xml_elem)})
                /\ C10_IsMin(my, {el.y : el \in Range(xml_elem)})
                /\ C10_IsMax(Mx, {el.x + el.width : el \in Range(xml_elem)})
                /\ C10_IsMax(My, {el.y + el.height : el \in Range(xml_elem)})
                /\ C10_IsFloor(returned_region[1].x1, mx, DOWNSAMPLE_FACTOR)
                /\ C10_IsFloor(returned_region[1].y1, my, DOWNSAMPLE_FACTOR)
                /\ C10_IsFloor(returned_region[1].x2, Mx, DOWNSAMPLE_FACTOR)
                /\ C10_IsFloor(returned_region[1].y2, My, DOWNSAMPLE_FACTOR)
        /\ xml_elem = <<Atom(10, 20, 5, 8), Atom(30, 22, 6, 9)>> =>
            returned_region = Some([x1 |-> 5, y1 |-> 10, x2 |-> 18, y2 |-> 15])

\* C10's case: the call has returned for the two atoms of the example.
C10_Witness ==
    /\ returned
    /\ xml_elem = <<Atom(10, 20, 5, 8), Atom(30, 22, 6, 9)>>
    /\ returned_region = Some([x1 |-> 5, y1 |-> 10, x2 |-> 18, y2 |-> 15])

\* the other case of C10: the call has returned None for the empty list
C10_WitnessNone ==
    /\ returned
    /\ xml_elem = <<>>
    /\ returned_region = None

----------------------------------------------------------------------------
\* The synthetic composer: C5, C6

\* C5: a returned paragraph is composed of 1 to 15 lines, its image is no
\* higher than input_dims[1] and no wider than input_dims[2] of the source,
\* and its label is no longer than output_dims[0] - 2.
C5_ReturnedWithinBounds ==
    pc = "returned" =>
        /\ Len(datum) = 1
        /\ Len(datum[1].pastes) = Len(indices)
        /\ 1 <= Len(indices)
        /\ Len(indices) <= 15
        /\ datum[1].height <= input_dims[2]
        /\ datum[1].width <= input_dims[3]
        /\ Len(labels) <= output_dims[1] - 2

\* C5's case: a paragraph of two lines is returned after a longer one was
\* refused.
C5_Witness ==
    /\ pc = "returned"
    /\ attempts = 2
    /\ Len(indices) = 2

\* the first sampled line alone passes the three tests
C6_FirstLineFits ==
    /\ indices # <<>>
    /\ at(line_crops, indices[1]).height <= input_dims[2]
    /\ at(line_crops, indices[1]).width <= input_dims[3]
    /\ Len(at(line_labels, indices[1])) <= output_dims[1] - 2

\* C6: in the loop, num_lines stays as drawn and a refused attempt leaves
\* the sampled indices less the last one; each pass is one more composition,
\* and when the first sampled line alone fits, the loop neither fails nor
\* goes on beyond num_lines compositions.
C6_ShrinkingRetry ==
    [][pc = "loop" =>
        /\ attempts' = attempts + 1
        /\ pc' # "raised" => num_lines' = num_lines
        /\ pc' = "returned" => indices' = indices
        /\ pc' = "loop" => indices' = SubSeq(indices, 1, Len(indices) - 1)
        /\ C6_FirstLineFits =>
            /\ pc' \in {"loop", "returned"}
            /\ attempts' <= num_lines
            /\ pc' = "loop" => (C6_FirstLineFits' /\ attempts' < num_lines)
      ]_vars

\* C6's case: three lines were sampled, the first fits, and the paragraph
\* returned is that line alone, after three compositions.
C6_Witness ==
    /\ pc = "returned"
    /\ num_lines = 3
    /\ attempts = 3
    /\ Len(indices) = 1

----------------------------------------------------------------------------
\* The crop store.

\* the crop files and the labels a split directory holds
StoredCrops(split) ==
    IF split \in DOMAIN processed.splits
    THEN Cardinality(DOMAIN processed.splits[split].crops) ELSE 0

StoredLabels(split) ==
    Cardinality(DOMAIN processed.splits[split].files["_labels.json"][1])

\* the labels of the split are written, and are not as many as its crop files
CountsDiffer(split) ==
    /\ split \in DOMAIN processed.splits
    /\ "_labels.json" \in DOMAIN processed.splits[split].files
    /\ processed.splits[split].files["_labels.json"] # None
    /\ StoredCrops(split) # StoredLabels(split)

\* C11: when the save of a split has returned, the split directory holds as
\* many crops as labels; every split setup has loaded has as many crops as
\* labels; and over a split directory whose counts differ, the load of the
\* line store, of the paragraph store and of the synthetic data module fails.
C11_CropsMatchLabels ==
    /\ \A split \in proc.saved :
            /\ processed.splits[split].files["_labels.json"] # None
            /\ StoredCrops(split) = StoredLabels(split)
    /\ \A split \in Splits \cap DOMAIN data :
            Len(data[split].crops) = Len(data[split].labels)
    /\ \A split \in Splits :
            CountsDiffer(split) =>
                CASE module = "IAMLines" ->
                        load_processed_crops_and_labels(split, processed).raised
                            = "AssertionError"
                  [] module = "IAMParagraphs" ->
                        paragraphs_load_processed_crops_and_labels(split, processed).raised
                            # "none"
                  [] module = "IAMSyntheticParagraphs" ->
                        IAMSyntheticParagraphs_setup("fit", processed, <<>>).raised
                            = "AssertionError"

\* a stopped run left two labels and one crop, and setup failed on the counts
C11_Witness ==
    /\ module = "IAMSyntheticParagraphs"
    /\ proc.pc = "killed"
    /\ CountsDiffer("train")
    /\ StoredCrops("train") = 1
    /\ raised = "AssertionError"
    /\ "train" \notin DOMAIN data

\* a split saved and loaded, with two crops and two labels
C11_WitnessLoaded ==
    /\ "train" \in proc.saved
    /\ "train" \in DOMAIN data
    /\ Len(data["train"].crops) = 2
    /\ Len(data["train"].labels) = 2

\* the cache target the data module names is there
TargetExists ==
    IF module \in {"IAMLines", "IAMSyntheticParagraphs"}
    THEN processed.exists
    ELSE "_properties.json" \in DOMAIN processed.files

\* C12: while the cache target exists and no run is under way, no step
\* starts a run, and no step but the deletion of the directory changes the
\* processed directory or the raw dataset: a prepare_data call returns at
\* once.  A run that returns leaves the cache target in place, so the call
\* after it is such a call.
C12_CachedPrepareDataIsNoOp ==
    [][ /\ (proc.pc # "saving" /\ TargetExists) =>
            /\ proc'.pc # "saving"
            /\ proc'.pc # "idle" =>
                    UNCHANGED <<processed, xml_files, split_files, raw_zip>>
        /\ (proc.pc = "saving" /\ proc'.pc = "returned") => TargetExists'
      ]_vars

\* prepare_data has returned without a write, over a complete store
C12_Witness ==
    /\ proc.pc = "returned"
    /\ ~ proc.wrote
    /\ TargetExists
    /\ Splits \subseteq DOMAIN processed.splits
    /\ StoredCrops("train") = 2

\* C13 (as stated): when the dimension validation of IAMParagraphs.setup
\* has passed, every stored crop is at most input_dims[1] high and at most
\* input_dims[2] wide.
C13_ValidatedDimsHoldCrops ==
    validated # None =>
        \A split \in DOMAIN processed.splits :
            \A id \in DOMAIN processed.splits[split].crops :
                /\ processed.splits[split].crops[id].height <= validated[1].input_dims[2]
                /\ processed.splits[split].crops[id].width <= validated[1].input_dims[3]

\* C20 (as stated): once a run was stopped between its first and its last
\* write, the processed directory changes no more until it is deleted.
C20_Original ==
    [][ (part_way /\ part_way') => UNCHANGED processed ]_vars

\* C20: once a run was stopped between its first and its last write and has
\* left the cache target (the directory of IAMLines and of
\* IAMSyntheticParagraphs, the _properties.json of IAMParagraphs), no run
\* starts and the processed directory changes no more until it is deleted;
\* a stopped IAMParagraphs run that had not come to _properties.json is
\* started over by the next prepare_data call.
C20_PartialStoreStays ==
    [][ /\ (part_way /\ part_way' /\ TargetExists /\ proc.pc # "saving") =>
            (UNCHANGED processed /\ proc'.pc # "saving")
        /\ (part_way /\ ~ TargetExists /\ proc.pc # "saving"
                /\ proc' # proc /\ proc'.pc # "idle") =>
            proc'.pc = "saving"
      ]_vars

\* a call after the stopped run has returned at once; the store has its
\* train labels and not yet its statistics
C20_Witness ==
    /\ part_way
    /\ module = "IAMLines"
    /\ proc.pc = "returned"
    /\ ~ proc.wrote
    /\ "train" \in DOMAIN processed.splits
    /\ "_max_aspect_ratio.txt" \notin DOMAIN processed.files

----------------------------------------------------------------------------
\* The seeding of the generator.

\* C14: a __getitem__ call seeds the generator with its index when seed_set
\* is not set, sets seed_set, and leaves the seed alone when seed_set is set;
\* no other step touches the seed.  Hence the seed is that of the first call
\* for good, and the draws of the n-th call are the next of its stream.
C14_SeededOnce ==
    [][ /\ attempts' = 0 =>
            /\ seed_set'
            /\ seed' = IF seed_set THEN seed ELSE index'
        /\ attempts' # 0 => UNCHANGED <<seed_set, seed>>
        /\ seed_set <=> seed # None
      ]_vars

\* a later call with another index has returned a paragraph, and the seed is
\* still the index of the first call
C14_Witness ==
    /\ seed = Some(0)
    /\ index = Some(1)
    /\ pc = "returned"
    /\ datum # None

----------------------------------------------------------------------------
\* Forms without lines.

\* the forms whose annotation file has no line
EmptyForms == {id \in xml_filenames : xml_files[id] = <<>>}

\* C15 (as stated): a form without lines has no entry in the line and
\* paragraph dicts of the catalog, and a form with a line has a paragraph
\* string and a paragraph region once both dicts are computed.
C15_Original ==
    /\ \A id \in EmptyForms :
            /\ "line_strings_by_id" \in cached => id \notin DOMAIN line_strings_by_id
            /\ "line_regions_by_id" \in cached => id \notin DOMAIN line_regions_by_id
            /\ "paragraph_string_by_id" \in cached =>
                    id \notin DOMAIN paragraph_string_by_id
            /\ "paragraph_region_by_id" \in cached =>
                    id \notin DOMAIN paragraph_region_by_id
    /\ \A id \in xml_filenames \ EmptyForms :
            ("paragraph_string_by_id" \in cached /\ "paragraph_region_by_id" \in cached)
                => (id \in DOMAIN paragraph_string_by_id
                    /\ id \in DOMAIN paragraph_region_by_id)

\* C15: the string dicts have an entry for every form, which for a form
\* without lines is the empty list and the empty string; while there is a
\* form without lines the region dicts are never computed (computing them
\* raises); and once the region dicts are computed every form has a line,
\* its line regions and one paragraph region.
C15_EmptyFormFailsRegions ==
    /\ "line_strings_by_id" \in cached =>
            /\ DOMAIN line_strings_by_id = xml_filenames
            /\ \A id \in EmptyForms : line_strings_by_id[id] = <<>>
    /\ "paragraph_string_by_id" \in cached =>
            /\ DOMAIN paragraph_string_by_id = xml_filenames
            /\ \A id \in EmptyForms : paragraph_string_by_id[id] = <<>>
    /\ EmptyForms # {} =>
            /\ "line_regions_by_id" \notin cached
            /\ "paragraph_region_by_id" \notin cached
    /\ "line_regions_by_id" \in cached =>
            /\ DOMAIN line_regions_by_id = xml_filenames
            /\ \A id \in xml_filenames :
                    Len(line_regions_by_id[id]) = Len(xml_files[id])
    /\ "paragraph_region_by_id" \in cached =>
            DOMAIN paragraph_region_by_id = xml_filenames

\* beside a form of one line, a form without lines has the empty paragraph
\* string, and the regions have failed on the assertion
C15_Witness ==
    /\ xml_files = [id \in Stems |->
                        IF id = <<"a01", "000">> THEN <<>> ELSE <<el_example>>]
    /\ "paragraph_string_by_id" \in cached
    /\ paragraph_string_by_id[<<"a01", "000">>] = <<>>
    /\ paragraph_string_by_id[<<"a01", "001">>] = <<"H", "i">>
    /\ raised = "AssertionError"

----------------------------------------------------------------------------
\* The text of a line.

QUOT == <<"&", "q", "u", "o", "t", ";">>

\* the positions of text at which an occurrence of &quot; starts
QuotStarts(text) ==
    {i \in 1..Len(text) - Len(QUOT) + 1 : SubSeq(text, i, i + Len(QUOT) - 1) = QUOT}

\* the positions of text outside the q u o t ; of an occurrence
KeptPositions(text) ==
    {p \in 1..Len(text) :
        ~ \E i \in QuotStarts(text) : i < p /\ p < i + Len(QUOT)}

\* string is text with each occurrence of &quot; made one double quote and
\* every other character kept, in order
IsUnescaped(string, text) ==
    /\ Len(string) = Cardinality(KeptPositions(text))
    /\ \A p \in KeptPositions(text) :
            string[Cardinality({q \in KeptPositions(text) : q <= p})]
                = IF p \in QuotStarts(text) THEN "\"" ELSE text[p]

\* C16: the line strings of a form are, line by line in document order, the
\* text attributes with every &quot; replaced by one double quote and every
\* other character unchanged.
C16_LineStringsUnescaped ==
    "line_strings_by_id" \in cached =>
        \A id \in xml_filenames :
            /\ Len(line_strings_by_id[id]) = Len(xml_files[id])
            /\ \A i \in DOMAIN xml_files[id] :
                    IsUnescaped(line_strings_by_id[id][i], xml_files[id][i].text)

\* a form whose lower line comes first in the document: the &quot without
\* its semicolon is kept, both &quot; of the other line are replaced
C16_Witness ==
    /\ "line_strings_by_id" \in cached
    /\ \E id \in xml_filenames :
            /\ xml_files[id] = <<el_below, el_overlapping>>
            /\ line_strings_by_id[id] =
                    << <<"&", "q", "u", "o", "t">>, <<"\"", "a", "\"">> >>

----------------------------------------------------------------------------
\* The entries after the first appearance.

\* the indices, counted from 1, at which a row holds the element
Appearances(row, element) == {s \in DOMAIN row : row[s] = element}

\* out is row with every entry after the first appearance of element
\* replaced
IsReplacedAfter(out, row, element, replace_) ==
    /\ Len(out) = Len(row)
    /\ \A s \in DOMAIN row :
            out[s] = IF \E a \in Appearances(row, element) : a < s
                     THEN replace_ ELSE row[s]

\* C17: replace_after returns a tensor of the shape of x in which each row
\* is the row of x up to and including the first appearance of element and
\* the replacement after it; for a row without element, first_appearance gives the
\* row length and the row is returned unchanged.
C17_ReplacedAfterFirst ==
    (arg_x # <<>> /\ (outs # None \/ raised # "none")) =>
        /\ raised = "none"
        /\ outs # None
        /\ Len(outs[1]) = shape0(arg_x)
        /\ \A b \in 1..shape0(arg_x) :
                /\ IsReplacedAfter(outs[1][b], arg_x.rows[b], arg_element, arg_replace)
                /\ Appearances(arg_x.rows[b], arg_element) = {} =>
                        /\ first_appearances[b] = shape1(arg_x)
                        /\ outs[1][b] = arg_x.rows[b]

\* the same for an int64 tensor with at least one column
Int64_ReplacedAfterFirst ==
    (arg_x # <<>> /\ arg_x.dtype = "int64" /\ shape1(arg_x) > 0
        /\ (outs # None \/ raised # "none"))
        => C17_ReplacedAfterFirst

----------------------------------------------------------------------------
\* Loggers without the logging method.

\* C18: check_and_warn returns True exactly when the logger lacks the
\* attribute, and a call on trainer.logger is made only after check_and_warn
\* returned False for the method called, so that no method the logger lacks
\* is called.
C18_InvokedOnlyIfPresent ==
    [][ /\ last_check' # None =>
            (last_check'[1].value <=> ~ hasattr(trainer_logger, last_check'[1].attribute))
        /\ invoked' # invoked =>
            /\ Len(invoked') = Len(invoked) + 1
            /\ last_check' = Some([attribute |-> invoked'[Len(invoked')].method,
                                value |-> FALSE])
            /\ hasattr(trainer_logger, invoked'[Len(invoked')].method)
        /\ raised' # "AttributeError" ]_vars

\* a logger with log_image and without log_table: the caption was logged,
\* the table was not and a warning names log_table
C18_Witness ==
    /\ trainer_logger = Some({"log_image"})
    /\ invoked = <<[method |-> "log_image", key |-> "validation/predictions"]>>
    /\ warnings = <<[feature |-> "image-to-text table", attribute |-> "log_table"]>>
    /\ last_check = Some([attribute |-> "log_table", value |-> TRUE])
    /\ raised = "none"

----------------------------------------------------------------------------
\* Dry runs.

\* the artifacts printed so far, in order
PrintedArtifacts ==
    SelectSeq(printed, LAMBDA line : line.what = "artifact")

\* the flags of the command line ask for the artifact
Asked(artifact) ==
    \/ args.all
    \/ args.no_alias /\ artifact.aliases = <<>>
    \/ /\ ~ args.all /\ ~ args.no_alias /\ args.aliases # None
       /\ \E alias \in Range(args.aliases[1]) : alias \in Range(artifact.aliases)

\* C19: with --dryrun no artifact is deleted, whatever the other flags and
\* the runs selected; the artifacts the flags ask for are printed, once for
\* each time their run is selected, and no other artifact is.
C19_DryrunDeletesNothing ==
    (args # <<>> /\ args.dryrun) =>
        /\ deleted = <<>>
        /\ \A i \in DOMAIN PrintedArtifacts :
                \E run \in RunIds : \E j \in DOMAIN ProjectArtifacts[run] :
                    /\ ProjectArtifacts[run][j].id = PrintedArtifacts[i].id
                    /\ Asked(ProjectArtifacts[run][j])
        /\ main_pc = "returned" =>
                \A run \in RunIds : \A j \in DOMAIN ProjectArtifacts[run] :
                    Asked(ProjectArtifacts[run][j]) =>
                        Cardinality({i \in DOMAIN PrintedArtifacts :
                                        PrintedArtifacts[i].id = ProjectArtifacts[run][j].id})
                            = Cardinality({k \in DOMAIN _get_runs(args.run_ids,
                                                                  args.run_name_res) :
                                            _get_runs(args.run_ids, args.run_name_res)[k]
                                                = run})

\* a dry run with --all and without -v over r1 by id and r2 by name has
\* returned: the three artifacts were printed and none deleted
C19_Witness ==
    /\ main_pc = "returned"
    /\ args # <<>>
    /\ args.dryrun /\ args.all /\ ~ args.verbose
    /\ printed = <<[what |-> "artifact", id |-> "a1"],
                   [what |-> "artifact", id |-> "a2"],
                   [what |-> "artifact", id |-> "a3"]>>
    /\ deleted = <<>>

----------------------------------------------------------------------------
\* The checksum of the archive.

\* C21: from an empty download directory, a call returns the filename of
\* the archive, and the extraction goes ahead, only if the file there has the
\* checksum of the metadata, also when an earlier call failed.
C21_ChecksumAlwaysEnforced ==
    [][ /\ returned_filename' => (dl_file' # None /\ sha256_matches(dl_file'[1]))
        /\ extracted' # None => sha256_matches(extracted'[1]) ]_vars

----------------------------------------------------------------------------
\* The lines of the paragraph returned.

\* the first n sampled lines pass the three tests
PrefixFits(n) ==
    /\ sum([j \in 1..n |-> at(line_crops, sampled_indices[j]).height]) <= input_dims[2]
    /\ \A j \in 1..n : at(line_crops, sampled_indices[j]).width <= input_dims[3]
    /\ sum([j \in 1..n |-> Len(at(line_labels, sampled_indices[j]))]) + (n - 1)
            <= output_dims[1] - 2

\* C22: the paragraph returned is made of the longest prefix of the sampled
\* list that passes the tests of height, width and label length, and a prefix
\* of a passing prefix passes.
C22_LongestFittingPrefix ==
    /\ \A n \in 2..Len(sampled_indices) : PrefixFits(n) => PrefixFits(n - 1)
    /\ pc = "returned" =>
            /\ Len(indices) \in 1..Len(sampled_indices)
            /\ indices = SubSeq(sampled_indices, 1, Len(indices))
            /\ Len(datum[1].pastes) = Len(indices)
            /\ PrefixFits(Len(indices))
            /\ \A n \in (Len(indices) + 1)..Len(sampled_indices) : ~ PrefixFits(n)

\* of three sampled lines the first two pass together and the three do not,
\* and the two are returned
C22_Witness ==
    /\ pc = "returned"
    /\ Len(sampled_indices) = 3
    /\ indices = SubSeq(sampled_indices, 1, 2)
    /\ PrefixFits(2)
    /\ ~ PrefixFits(3)

----------------------------------------------------------------------------
\* The overlap of consecutive lines.

\* C23: for consecutive lines of a form, the padded y2 of the first less the
\* padded y1 of the second is at most the unpadded y2 of the first less the
\* unpadded y1 of the second, or zero if that is negative; when the second
\* begins at or below the end of the first before padding, it does so after.
C23_PaddingAddsNoOverlap ==
    "line_regions_by_id" \in cached =>
        \A id \in DOMAIN line_regions_by_id :
            \A i \in 1..(Len(line_regions_by_id[id]) - 1) :
                LET unpadded == UnpaddedRegions(id)
                    padded == line_regions_by_id[id]
                    before == unpadded[i].y2 - unpadded[i + 1].y1
                    after == padded[i].y2 - padded[i + 1].y1
                IN  /\ after <= (IF before > 0 THEN before ELSE 0)
                    /\ before <= 0 => after <= 0

\* a form of two lines 13 apart: each is padded by 6 towards the other and
\* one row stays between them
C23_Witness ==
    /\ "line_regions_by_id" \in cached
    /\ \E id \in DOMAIN line_regions_by_id :
            /\ xml_files[id] = <<el_overlapping, el_below>>
            /\ line_regions_by_id[id][1].y2 = 25
            /\ line_regions_by_id[id][2].y1 = 26

----------------------------------------------------------------------------
\* The vertical padding of a line.

\* the gap above line i of the unpadded regions, and the gap below it
GapBefore(unpadded, i) ==
    IF i = 1 THEN 2 * LINE_REGION_PADDING
    ELSE IF unpadded[i].y1 - unpadded[i - 1].y2 > 0
         THEN unpadded[i].y1 - unpadded[i - 1].y2 ELSE 0

GapAfter(unpadded, i) ==
    IF i = Len(unpadded) THEN 2 * LINE_REGION_PADDING
    ELSE IF unpadded[i + 1].y1 - unpadded[i].y2 > 0
         THEN unpadded[i + 1].y1 - unpadded[i].y2 ELSE 0

\* the smaller of the padding and half the gap, rounded down
PaddingFor(gap) ==
    IF gap \div 2 < LINE_REGION_PADDING THEN gap \div 2 ELSE LINE_REGION_PADDING

\* C24: each line is padded above by the smaller of the padding and half
\* the gap before it, and below by the smaller of the padding and half the
\* gap after it; the padding towards a neighbour is at most half the gap to
\* it, and the top of the first line and the bottom of the last get the full
\* padding.
C24_PaddedByHalfGaps ==
    "line_regions_by_id" \in cached =>
        \A id \in DOMAIN line_regions_by_id :
            LET unpadded == UnpaddedRegions(id)
                padded == line_regions_by_id[id]
                n == Len(padded)
            IN  /\ n = Len(unpadded)
                /\ \A i \in 1..n :
                        /\ unpadded[i].y1 - padded[i].y1 = PaddingFor(GapBefore(unpadded, i))
                        /\ padded[i].y2 - unpadded[i].y2 = PaddingFor(GapAfter(unpadded, i))
                        /\ i > 1 => 2 * (unpadded[i].y1 - padded[i].y1)
                                        <= GapBefore(unpadded, i)
                        /\ i < n => 2 * (padded[i].y2 - unpadded[i].y2)
                                        <= GapAfter(unpadded, i)
                /\ n > 0 =>
                        /\ unpadded[1].y1 - padded[1].y1 = LINE_REGION_PADDING
                        /\ padded[n].y2 - unpadded[n].y2 = LINE_REGION_PADDING

\* a form of the one line of the example, padded by 8 above and below, beside
\* a form of two lines 17 apart, each padded by 8 on both sides
C24_Witness ==
    /\ "line_regions_by_id" \in cached
    /\ \E id, other \in DOMAIN line_regions_by_id :
            /\ xml_files[id] = <<el_example>>
            /\ line_regions_by_id[id][1].y1 = 2
            /\ line_regions_by_id[id][1].y2 = 23
            /\ xml_files[other] = <<el_example, el_below>>
            /\ line_regions_by_id[other][1].y2 = 23
            /\ line_regions_by_id[other][2].y1 = 24
            /\ line_regions_by_id[other][2].y2 = 44

----------------------------------------------------------------------------
\* Form IDs listed more than once.

\* the forms a split-definition file names: the first two components of its
\* line IDs, the empty lines left out
FormsNamed(file) ==
    {SubSeq(file[i], 1, 2) : i \in {j \in DOMAIN file : file[j] # <<"">>}}

\* how often a list holds an ID
Occurrences(lst, id) == Cardinality({i \in DOMAIN lst : lst[i] = id})

\* C25 (as stated): test_ids and validation_ids each hold a form ID at most
\* once, whatever the split-definition files hold.
C25_Original ==
    /\ "test_ids" \in cached =>
            \A id \in Range(test_ids) : Occurrences(test_ids, id) = 1
    /\ "validation_ids" \in cached =>
            \A id \in Range(validation_ids) : Occurrences(validation_ids, id) = 1

\* C25: test_ids holds once each form that testset.txt names and nothing
\* else; validation_ids holds a form once for each of validationset1.txt and
\* validationset2.txt that names it, so twice when both do, and nothing else.
C25_OncePerFile ==
    /\ "test_ids" \in cached =>
            /\ Range(test_ids) = FormsNamed(split_files.testset)
            /\ \A id \in Range(test_ids) : Occurrences(test_ids, id) = 1
    /\ "validation_ids" \in cached =>
            /\ Range(validation_ids) = FormsNamed(split_files.validationset1)
                                        \cup FormsNamed(split_files.validationset2)
            /\ \A id \in Range(validation_ids) :
                    Occurrences(validation_ids, id) =
                        (IF id \in FormsNamed(split_files.validationset1) THEN 1 ELSE 0)
                        + (IF id \in FormsNamed(split_files.validationset2) THEN 1 ELSE 0)

\* testset.txt names one form on two lines and test_ids holds it once; both
\* validation files name one form and validation_ids holds it twice
C25_Witness ==
    /\ {"test_ids", "validation_ids"} \subseteq cached
    /\ split_files.testset = << <<"a01", "000", "00">>, <<"a01", "000", "01">> >>
    /\ test_ids = << <<"a01", "000">> >>
    /\ validation_ids = << <<"a01", "001">>, <<"a01", "001">> >>

----------------------------------------------------------------------------
\* The marker of the paragraph store.

\* C26: whenever the processed directory of IAMParagraphs holds
\* _properties.json, be it only opened, each of train, val and test holds its
\* _labels.json, written, and a crop file for every form the labels name;
\* also when the run was stopped.
C26_MarkerWrittenLast ==
    (module = "IAMParagraphs" /\ "_properties.json" \in DOMAIN processed.files) =>
        \A split \in Splits :
            /\ split \in DOMAIN processed.splits
            /\ "_labels.json" \in DOMAIN processed.splits[split].files
            /\ processed.splits[split].files["_labels.json"] # None
            /\ DOMAIN processed.splits[split].files["_labels.json"][1]
                    \subseteq DOMAIN processed.splits[split].crops

\* the run was stopped with _properties.json opened and not yet written,
\* over splits that hold a labelled form
C26_Witness ==
    /\ module = "IAMParagraphs"
    /\ proc.pc = "killed"
    /\ "_properties.json" \in DOMAIN processed.files
    /\ processed.files["_properties.json"] = None
    /\ \E split \in Splits :
            DOMAIN processed.splits[split].files["_labels.json"][1] # {}

----------------------------------------------------------------------------
\* A first sampled line that does not fit.

\* the first sampled line alone fails one of the three tests
FirstSampledViolates ==
    /\ sampled_indices # <<>>
    /\ \/ at(line_crops, sampled_indices[1]).height > input_dims[2]
       \/ at(line_crops, sampled_indices[1]).width > input_dims[3]
       \/ Len(at(line_labels, sampled_indices[1])) > output_dims[1] - 2

\* C27: when the first sampled line alone fails a test, __getitem__ returns
\* no paragraph; each pass of its loop drops one line, the k-th pass leaves
\* no line, and the pass after it, the (k + 1)-th, ends the call with the
\* IndexError of composing an empty list.
C27_FirstLineTooLargeFails ==
    /\ [](FirstSampledViolates =>
            /\ pc \in {"loop", "raised"}
            /\ pc = "loop" =>
                /\ attempts <= Len(sampled_indices)
                /\ indices = SubSeq(sampled_indices, 1, Len(sampled_indices) - attempts)
            /\ pc = "raised" =>
                /\ raised = "IndexError"
                /\ indices = <<>>
                /\ datum = None
                /\ attempts = Len(sampled_indices) + 1)
    /\ [][(FirstSampledViolates /\ pc = "loop") =>
            /\ attempts' = attempts + 1
            /\ sampled_indices' = sampled_indices]_vars

\* two lines were sampled, the label of the first is too long by itself, and
\* the call has ended with the error after three compositions
C27_Witness ==
    /\ pc = "raised"
    /\ raised = "IndexError"
    /\ Len(sampled_indices) = 2
    /\ attempts = 3
    /\ Len(at(line_labels, sampled_indices[1])) > output_dims[1] - 2
    /\ at(line_crops, sampled_indices[1]).height <= input_dims[2]
    /\ at(line_crops, sampled_indices[1]).width <= input_dims[3]

----------------------------------------------------------------------------
\* The paragraph returned.

\* the crop and the label of the j-th line the paragraph is made of
SelectedCrop(j) == at(line_crops, indices[j])

SelectedLabel(j) == at(line_labels, indices[j])

\* where the j-th text line starts in the label: after the text lines before
\* it and a newline token for each
LabelOffset(j) == sum([h \in 1..(j - 1) |-> Len(SelectedLabel(h)) + 1])

\* C29: the paragraph returned is made of the first lines sampled, in the
\* order sampled; the j-th crop is pasted at x = 0 and y = the heights of the
\* crops before it, the image is as high as the crops together and as wide
\* as the widest, and the label is the lines' labels in the same order with
\* one newline token between two of them.
C29_StackedInSampledOrder ==
    pc = "returned" =>
        LET k == Len(indices)
            para == datum[1]
        IN  /\ k >= 1
            /\ indices = SubSeq(sampled_indices, 1, k)
            /\ Len(para.pastes) = k
            /\ \A j \in 1..k :
                /\ para.pastes[j].crop = SelectedCrop(j)
                /\ para.pastes[j].box[1] = 0
                /\ para.pastes[j].box[2] = sum([h \in 1..(j - 1) |-> SelectedCrop(h).height])
            /\ para.height = sum([j \in 1..k |-> SelectedCrop(j).height])
            /\ \E j \in 1..k : para.width = SelectedCrop(j).width
            /\ \A j \in 1..k : para.width >= SelectedCrop(j).width
            /\ Len(labels) = LabelOffset(k) + Len(SelectedLabel(k))
            /\ \A j \in 1..k :
                /\ SubSeq(labels, LabelOffset(j) + 1, LabelOffset(j) + Len(SelectedLabel(j)))
                        = SelectedLabel(j)
                /\ j < k => labels[LabelOffset(j) + Len(SelectedLabel(j)) + 1] = NEW_LINE_TOKEN

\* three lines were sampled, the last was dropped, and the paragraph returned
\* is a low line above a high one with a different label
C29_Witness ==
    /\ pc = "returned"
    /\ Len(sampled_indices) = 3
    /\ attempts = 2
    /\ Len(indices) = 2
    /\ SelectedCrop(1).height < SelectedCrop(2).height
    /\ SelectedLabel(1) # SelectedLabel(2)

----------------------------------------------------------------------------
\* The line crops read back.

\* C28: what load_processed_crops_and_labels returns for a split is the crops
\* and the labels handed to save_images_and_labels for it, in the order they
\* were handed over, whatever the order the directory listed its entries in:
\* crop i is the crop of the line whose transcription is label i.
C28_LoadedInSavedOrder ==
    line_loaded # None =>
        LET got == line_loaded[1]
            kept == line_saved[got.split]
        IN  /\ got.raised = "none"
            /\ got.crops = kept.crops
            /\ got.labels = kept.labels
            /\ \A i \in DOMAIN got.crops :
                got.labels[i] = LineLabel(got.crops[i].split, got.crops[i].line)

\* eleven crops were saved, so that 10.png is there, and loaded back from a
\* listing that met them in another order than the one they were made in
C28_Witness ==
    /\ line_loaded # None
    /\ line_loaded[1].raised = "none"
    /\ Len(line_loaded[1].crops) >= 11
    /\ line_listing # line_dir[line_loaded[1].split].order
    /\ glob_png(line_listing) # sorted_by_key(glob_png(line_listing))

----------------------------------------------------------------------------
\* The split of a form.

\* C30: split_by_id has an entry, one of train, val and test, for every ID of
\* all_ids; an ID of test_ids is mapped to test, an ID of validation_ids that
\* is not in test_ids to val, and every other ID to train; and an ID mapped
\* to a split is in the list ids_by_split holds for that split.
C30_SplitByIdInverse ==
    "split_by_id" \in cached =>
        /\ Range(all_ids) \subseteq DOMAIN split_by_id
        /\ \A id \in DOMAIN split_by_id :
            /\ split_by_id[id] \in Splits
            /\ id \in Range(test_ids) => split_by_id[id] = "test"
            /\ id \in Range(validation_ids) \ Range(test_ids) => split_by_id[id] = "val"
            /\ id \notin Range(validation_ids) \cup Range(test_ids) => split_by_id[id] = "train"
            /\ split_by_id[id] = "train" => id \in Range(train_ids)
            /\ split_by_id[id] = "val" => id \in Range(validation_ids)
            /\ split_by_id[id] = "test" => id \in Range(test_ids)
            /\ "ids_by_split" \in cached => id \in Range(ids_by_split[split_by_id[id]])

\* both dicts are computed; a form is listed for test and for validation and
\* mapped to test, and another form is mapped to train
C30_Witness ==
    /\ {"split_by_id", "ids_by_split"} \subseteq cached
    /\ \E id \in Range(test_ids) \cap Range(validation_ids) : split_by_id[id] = "test"
    /\ \E id \in Range(all_ids) : split_by_id[id] = "train"
====
